---- MODULE Spec2Model ----
(***************************************************************************)
(* Reservation intake of the homepage repository: the capacity resolver,   *)
(* the occupancy counter, the availability evaluator (lib/checkAvailability*)
(* in its three-tier and its two-tier version), the apply route in its two *)
(* versions, and the admin routes over applications and settings.          *)
(*                                                                         *)
(* Conventions.  A JavaScript value that may be null/undefined is a        *)
(* sequence of length at most one: None is null/undefined, Some(x) is x.   *)
(* A date string "YYYY-MM-DD" is the tuple <<YYYY, MM, DD>>.  The gender   *)
(* strings of the source (Korean) are written "male", "female", "other".   *)
(* A free-text field is a record [lead, core, trail]: lead and trail count *)
(* white space, core is the text between (None when there is none).        *)
(***************************************************************************)
EXTENDS Integers, Sequences, FiniteSets, TLC

VARIABLES
    env,               \* process.env: DEFAULT_MAX_PER_GENDER, ADMIN_TOKEN, TZ
    applications,      \* table applications
    date_settings,     \* table date_settings
    weekday_settings,  \* table weekday_settings
    nextId,            \* the store's next serial id for applications
    req,               \* the last request received (NoReq for a library call)
    resp,              \* what the last operation returned
    inflight,          \* apply handlers suspended at the await of their insert
    page               \* the apply page: its React state and its pending fetches

vars == <<env, applications, date_settings, weekday_settings, nextId, req, resp,
          inflight, page>>

store == <<applications, date_settings, weekday_settings>>

----------------------------------------------------------------------------
(* Bounds of the model *)

\* rows the applications table ever receives under Spec
MaxApps == 1

\* rows of an applications table drawn by InitEval
MaxRows == 2

----------------------------------------------------------------------------
(* Values *)

None == <<>>

Some(x) == <<x>>

\* a ?? b
Coalesce(a, b) == IF a = None THEN b ELSE a[1]

Genders == {"male", "female", "other"}

Statuses == {"pending", "confirmed", "matched", "rejected"}

\* 2026-01-15 is a Thursday, 2026-01-14 a Wednesday
D1 == <<2026, 1, 15>>

D2 == <<2026, 1, 14>>

Dates == {D1, D2}

\* minutes east of UTC of the server's time zone: New York, UTC, Seoul
TimeZones == {0 - 300, 0, 540}

NoResp == [op |-> "none"]

NoReq == [op |-> "none"]

\* the apply page as mounted: INITIAL_FORM (gender male, desiredDate ""),
\* dateAvailability null, isCheckingDate false, no fetch pending
INITIAL_PAGE ==
    [desiredDate |-> None, gender |-> "male", dateAvailability |-> None,
     isCheckingDate |-> FALSE, fetches |-> {}]

----------------------------------------------------------------------------
(* lib/checkAvailability, three-tier version *)

DigitValue(c) ==
    CASE c = "0" -> 0 [] c = "1" -> 1 [] c = "2" -> 2 [] c = "3" -> 3
      [] c = "4" -> 4 [] c = "5" -> 5 [] c = "6" -> 6 [] c = "7" -> 7
      [] c = "8" -> 8 [] c = "9" -> 9

IsDigit(c) == c \in {"0", "1", "2", "3", "4", "5", "6", "7", "8", "9"}

RECURSIVE ParseDigits(_, _, _)
\* the digits of s from position i on, read in base 10 onto acc, up to the
\* first character that is no digit
ParseDigits(s, i, acc) ==
    IF i > Len(s) \/ ~IsDigit(s[i]) THEN acc
    ELSE ParseDigits(s, i + 1, acc * 10 + DigitValue(s[i]))

\* parseInt(s, 10) of a string given as its characters: None is NaN
parseInt(s) ==
    LET neg   == Len(s) >= 1 /\ s[1] = "-"
        first == IF neg \/ (Len(s) >= 1 /\ s[1] = "+") THEN 2 ELSE 1
    IN IF first > Len(s) \/ ~IsDigit(s[first]) THEN None
       ELSE LET n == ParseDigits(s, first, 0)
            IN Some(IF neg THEN 0 - n ELSE n)

\* envValue ? parseInt(envValue, 10) : 4
getDefaultMax ==
    LET envValue == env.DEFAULT_MAX_PER_GENDER
    IN IF envValue # None /\ envValue[1] # <<>>
       THEN parseInt(envValue[1])[1]
       ELSE 4

\* days from 1970-01-01 to the civil date y-m-d (proleptic Gregorian)
DaysFromCivil(y, m, d) ==
    LET yy  == IF m <= 2 THEN y - 1 ELSE y
        era == yy \div 400
        yoe == yy - era * 400
        mp  == IF m > 2 THEN m - 3 ELSE m + 9
        doy == (153 * mp + 2) \div 5 + d - 1
        doe == yoe * 365 + yoe \div 4 - yoe \div 100 + doy
    IN era * 146097 + doe - 719468

\* new Date("YYYY-MM-DD"): midnight UTC of that date, in minutes since the epoch
NewDate(dateStr) == DaysFromCivil(dateStr[1], dateStr[2], dateStr[3]) * 1440

\* Date.prototype.getDay(): the weekday of the instant in the local time zone
getDay(t) == (((t + env.TZ) \div 1440) + 4) % 7

getWeekdayFromDate(dateStr) == getDay(NewDate(dateStr))

\* .single(): the row when the query matches exactly one, else data is null
Single(rows) ==
    IF Cardinality(rows) = 1 THEN Some(CHOOSE r \in rows : TRUE) ELSE None

\* a resolver that fills the null fields of a date row from the weekday row
getMaxCapacityMerge(date) ==
    LET defaultMax == getDefaultMax
        dateSettings == Single({s \in date_settings : s.date = date})
        weekdaySettings ==
            Single({s \in weekday_settings : s.weekday = getWeekdayFromDate(date)})
        w == IF weekdaySettings = None
             THEN [max_male |-> None, max_female |-> None]
             ELSE weekdaySettings[1]
    IN IF dateSettings # None
       THEN [maxMale   |-> Coalesce(dateSettings[1].max_male,
                                    Coalesce(w.max_male, defaultMax)),
             maxFemale |-> Coalesce(dateSettings[1].max_female,
                                    Coalesce(w.max_female, defaultMax))]
       ELSE [maxMale   |-> Coalesce(w.max_male, defaultMax),
             maxFemale |-> Coalesce(w.max_female, defaultMax)]

getMaxCapacity(date) ==
    LET defaultMax == getDefaultMax
        dateSettings == Single({s \in date_settings : s.date = date})
    IN IF dateSettings # None
       THEN [maxMale   |-> Coalesce(dateSettings[1].max_male, defaultMax),
             maxFemale |-> Coalesce(dateSettings[1].max_female, defaultMax)]
       ELSE LET weekday == getWeekdayFromDate(date)
                weekdaySettings ==
                    Single({s \in weekday_settings : s.weekday = weekday})
            IN IF weekdaySettings # None
               THEN [maxMale   |-> Coalesce(weekdaySettings[1].max_male, defaultMax),
                     maxFemale |-> Coalesce(weekdaySettings[1].max_female, defaultMax)]
               ELSE [maxMale |-> defaultMax, maxFemale |-> defaultMax]

\* a query that forgets the status filter
ConfirmedOnAnyStatus(date) ==
    {a \in applications : a.desired_date = Some(date)}

\* a query that answers a call that follows another call from an empty cache
ConfirmedOnFirstCall(date) ==
    IF resp.op \in {"checkDateAvailability", "GET /api/availability"}
    THEN {}
    ELSE {a \in applications : a.desired_date = Some(date) /\ a.status = "confirmed"}

\* a query that takes matched applications for occupants too
ConfirmedOrMatchedOn(date) ==
    {a \in applications :
        a.desired_date = Some(date) /\ a.status \in {"confirmed", "matched"}}

\* from("applications").select("gender").eq("desired_date", date).eq("status", "confirmed")
ConfirmedOn(date) ==
    {a \in applications : a.desired_date = Some(date) /\ a.status = "confirmed"}

RECURSIVE CountGenders(_, _)
\* the loop over the rows: maleCount++ / femaleCount++
CountGenders(rows, counts) ==
    IF rows = {} THEN counts
    ELSE LET app == CHOOSE a \in rows : TRUE
         IN CountGenders(rows \ {app},
                IF app.gender = "male"
                THEN [counts EXCEPT !.maleCount = @ + 1]
                ELSE IF app.gender = "female"
                THEN [counts EXCEPT !.femaleCount = @ + 1]
                ELSE counts)

\* a closure test that needs the count to exceed the maximum
IsClosedStrict(count, max) == count > max

\* maleCount >= maxMale, femaleCount >= maxFemale
IsClosed(count, max) == count >= max

\* a decision that tests each gender against the other gender's closure
DecideSwapped(date, gender, c, m, isMaleClosed, isFemaleClosed) ==
    IF gender = "male" /\ isFemaleClosed
    THEN [isAvailable |-> FALSE,
          message |-> Some(<<"date", date, "male closed", c.maleCount, "/", m.maxMale>>)]
    ELSE IF gender = "female" /\ isMaleClosed
    THEN [isAvailable |-> FALSE,
          message |-> Some(<<"date", date, "female closed", c.femaleCount, "/", m.maxFemale>>)]
    ELSE [isAvailable |-> TRUE, message |-> None]

\* a decision that gates every gender on either closure
DecideAll(date, gender, c, m, isMaleClosed, isFemaleClosed) ==
    IF isMaleClosed
    THEN [isAvailable |-> FALSE,
          message |-> Some(<<"date", date, "male closed", c.maleCount, "/", m.maxMale>>)]
    ELSE IF isFemaleClosed
    THEN [isAvailable |-> FALSE,
          message |-> Some(<<"date", date, "female closed", c.femaleCount, "/", m.maxFemale>>)]
    ELSE [isAvailable |-> TRUE, message |-> None]

\* the decision for the asked gender, and the message template
\* `date (${date}) ... closed. (${count}/${max})`
Decide(date, gender, c, m, isMaleClosed, isFemaleClosed) ==
    IF gender = "male" /\ isMaleClosed
    THEN [isAvailable |-> FALSE,
          message |-> Some(<<"date", date, "male closed", c.maleCount, "/", m.maxMale>>)]
    ELSE IF gender = "female" /\ isFemaleClosed
    THEN [isAvailable |-> FALSE,
          message |-> Some(<<"date", date, "female closed", c.femaleCount, "/", m.maxFemale>>)]
    ELSE [isAvailable |-> TRUE, message |-> None]

\* the result object, from the resolved maxima m and the rows of the query
AvailabilityResult(date, gender, m, rows) ==
    LET c == CountGenders(rows, [maleCount |-> 0, femaleCount |-> 0])
        isMaleClosed   == IsClosed(c.maleCount, m.maxMale)
        isFemaleClosed == IsClosed(c.femaleCount, m.maxFemale)
        d == Decide(date, gender, c, m, isMaleClosed, isFemaleClosed)
    IN [isAvailable    |-> d.isAvailable,
        isMaleClosed   |-> isMaleClosed,
        isFemaleClosed |-> isFemaleClosed,
        maleCount      |-> c.maleCount,
        femaleCount    |-> c.femaleCount,
        maxMale        |-> m.maxMale,
        maxFemale      |-> m.maxFemale,
        message        |-> d.message]

checkDateAvailability(date, gender) ==
    AvailabilityResult(date, gender, getMaxCapacity(date), ConfirmedOn(date))

\* a status query that counts the applications of every status
getDateStatusAnyStatus(date) ==
    LET m == getMaxCapacity(date)
        c == CountGenders({a \in applications : a.desired_date = Some(date)},
                          [maleCount |-> 0, femaleCount |-> 0])
    IN [maleCount      |-> c.maleCount,
        femaleCount    |-> c.femaleCount,
        maxMale        |-> m.maxMale,
        maxFemale      |-> m.maxFemale,
        isMaleClosed   |-> IsClosed(c.maleCount, m.maxMale),
        isFemaleClosed |-> IsClosed(c.femaleCount, m.maxFemale)]

getDateStatus(date) ==
    LET m == getMaxCapacity(date)
        c == CountGenders(ConfirmedOn(date), [maleCount |-> 0, femaleCount |-> 0])
    IN [maleCount      |-> c.maleCount,
        femaleCount    |-> c.femaleCount,
        maxMale        |-> m.maxMale,
        maxFemale      |-> m.maxFemale,
        isMaleClosed   |-> IsClosed(c.maleCount, m.maxMale),
        isFemaleClosed |-> IsClosed(c.femaleCount, m.maxFemale)]

----------------------------------------------------------------------------
(* lib/checkAvailability, two-tier version: date row, else the default *)

\* settingsData?.max_male ?? defaultMax
TwoTierCapacity(date) ==
    LET defaultMax == getDefaultMax
        settingsData == Single({s \in date_settings : s.date = date})
    IN [maxMale   |-> IF settingsData = None THEN defaultMax
                      ELSE Coalesce(settingsData[1].max_male, defaultMax),
        maxFemale |-> IF settingsData = None THEN defaultMax
                      ELSE Coalesce(settingsData[1].max_female, defaultMax)]

checkDateAvailabilityTwoTier(date, gender) ==
    AvailabilityResult(date, gender, TwoTierCapacity(date), ConfirmedOn(date))

getDateStatusTwoTier(date) ==
    LET m == TwoTierCapacity(date)
        c == CountGenders(ConfirmedOn(date), [maleCount |-> 0, femaleCount |-> 0])
    IN [maleCount      |-> c.maleCount,
        femaleCount    |-> c.femaleCount,
        maxMale        |-> m.maxMale,
        maxFemale      |-> m.maxFemale,
        isMaleClosed   |-> IsClosed(c.maleCount, m.maxMale),
        isFemaleClosed |-> IsClosed(c.femaleCount, m.maxFemale)]

----------------------------------------------------------------------------
(* Calls of the library on a store that does not change: SpecEval *)

CallCheckDateAvailability(date, gender) ==
    /\ resp' = [op |-> "checkDateAvailability", date |-> date, gender |-> gender,
                ret |-> checkDateAvailability(date, gender)]
    /\ req' = NoReq
    /\ UNCHANGED <<inflight, page, env, applications, date_settings, weekday_settings, nextId>>

CallGetDateStatus(date) ==
    /\ resp' = [op |-> "getDateStatus", date |-> date, ret |-> getDateStatus(date)]
    /\ req' = NoReq
    /\ UNCHANGED <<inflight, page, env, applications, date_settings, weekday_settings, nextId>>

CallCheckDateAvailabilityTwoTier(date, gender) ==
    /\ resp' = [op |-> "checkDateAvailabilityTwoTier", date |-> date,
                gender |-> gender,
                ret |-> checkDateAvailabilityTwoTier(date, gender)]
    /\ req' = NoReq
    /\ UNCHANGED <<inflight, page, env, applications, date_settings, weekday_settings, nextId>>

CallGetDateStatusTwoTier(date) ==
    /\ resp' = [op |-> "getDateStatusTwoTier", date |-> date,
                ret |-> getDateStatusTwoTier(date)]
    /\ req' = NoReq
    /\ UNCHANGED <<inflight, page, env, applications, date_settings, weekday_settings, nextId>>

GenderSeq == <<"male", "female", "other">>

StatusSeq == <<"pending", "confirmed", "matched", "rejected">>

DesiredDateSeq == <<None, Some(D1), Some(D2)>>

\* the row contents, numbered 0 .. 35
RowKind(i) ==
    [gender       |-> GenderSeq[(i \div 12) + 1],
     desired_date |-> DesiredDateSeq[((i \div 4) % 3) + 1],
     status       |-> StatusSeq[(i % 4) + 1]]

AppRow(id, k) ==
    [id |-> id, gender |-> k.gender, desired_date |-> k.desired_date,
     status |-> k.status]

\* the applications tables of at most MaxRows rows, ids in insertion order; two
\* tables that differ only in which id carries which contents are drawn once
EvalTables ==
    UNION {
        {{AppRow(j, RowKind(f[j])) : j \in 1..n} :
            f \in {g \in [1..n -> 0..35] :
                      \A j \in 1..n : j < n => g[j] <= g[j + 1]}}
        : n \in 0..MaxRows}

\* date rows a store may hold: columns are nullable
EvalDateSettings ==
    {{},
     {[date |-> D1, max_male |-> Some(2), max_female |-> Some(0)]},
     {[date |-> D1, max_male |-> Some(1), max_female |-> None]}}

\* four confirmed male applications for D1
FourConfirmedMen ==
    {[id |-> j, gender |-> "male", desired_date |-> Some(D1),
      status |-> "confirmed"] : j \in 1..4}

InitEval ==
    /\ \/ /\ env = [DEFAULT_MAX_PER_GENDER |-> Some(<<"1">>),
                     ADMIN_TOKEN |-> Some("tok"), TZ |-> 540]
          /\ applications \in EvalTables
          /\ date_settings \in EvalDateSettings
       \/ /\ env = [DEFAULT_MAX_PER_GENDER |-> None,
                     ADMIN_TOKEN |-> Some("tok"), TZ |-> 540]
          /\ applications = FourConfirmedMen
          /\ date_settings = {}
    /\ weekday_settings = {}
    /\ nextId = Cardinality(applications) + 1
    /\ req = NoReq
    /\ inflight = {}
    /\ page = INITIAL_PAGE
    /\ resp = NoResp

NextEval ==
    \/ \E date \in Dates, gender \in Genders : CallCheckDateAvailability(date, gender)
    \/ \E date \in Dates : CallGetDateStatus(date)
    \/ \E date \in Dates, gender \in Genders :
           CallCheckDateAvailabilityTwoTier(date, gender)
    \/ \E date \in Dates : CallGetDateStatusTwoTier(date)

SpecEval == InitEval /\ [][NextEval]_vars

----------------------------------------------------------------------------
(* Requests *)

\* String.prototype.trim()
Trim(t) == [lead |-> 0, core |-> t.core, trail |-> 0]

\* s.length > 0
NonEmpty(t) == t.lead > 0 \/ t.core # None \/ t.trail > 0

Text(lead, core, trail) == [lead |-> lead, core |-> core, trail |-> trail]

\* a coercion that takes every value for true
CoerceAlwaysTrue(v) == TRUE

\* Boolean(v) of z.coerce.boolean()
CoerceBoolean(v) ==
    CASE v.t = "boolean"   -> v.v
      [] v.t = "undefined" -> FALSE
      [] v.t = "string"    -> v.v # ""

JsTrue == [t |-> "boolean", v |-> TRUE]

JsFalse == [t |-> "boolean", v |-> FALSE]

JsUndefined == [t |-> "undefined"]

JsString(str) == [t |-> "string", v |-> str]

OptionalNames == {"kakaoId", "location", "preferredGender", "note"}

OptionalMax(f) ==
    CASE f = "kakaoId" -> 50 [] f = "location" -> 50
      [] f = "preferredGender" -> 100 [] f = "note" -> 500

\* Schema.safeParse(body).success; strings are given by their lengths, but
\* age by its characters and desiredDate, website as texts
SchemaSuccess(body) ==
    /\ body.name >= 1 /\ body.name <= 50
    /\ Len(body.age) >= 1 /\ Len(body.age) <= 3
    /\ body.gender \in {"male", "female", "other"}
    /\ body.phone >= 8 /\ body.phone <= 20
    /\ \A f \in OptionalNames :
           body.optional[f] = None \/ body.optional[f][1] <= OptionalMax(f)

\* a well-formed form, as the apply page posts it
FormBody(gender, desiredDate, agreePrivacy, website) ==
    [name |-> 3, age |-> <<"2", "9">>, gender |-> gender, phone |-> 13,
     optional |-> [f \in OptionalNames |-> Some(0)],
     desiredDate |-> desiredDate, agreePrivacy |-> agreePrivacy,
     website |-> website]

\* the authorization header: None when absent, else what precedes and what
\* follows its first seven characters
Bearer(token) == Some([scheme |-> "Bearer ", rest |-> token])

\* const ADMIN_TOKEN = process.env.ADMIN_TOKEN ?? ""
ADMIN_TOKEN == Coalesce(env.ADMIN_TOKEN, "")

\* a verification that accepts whatever token follows "Bearer "
verifyTokenAnyBearer(authHeader) ==
    authHeader # None /\ authHeader[1].scheme = "Bearer "

\* a verification without the test of the configured token's length
verifyTokenNoLength(authHeader) ==
    IF authHeader = None \/ authHeader[1].scheme # "Bearer " THEN FALSE
    ELSE authHeader[1].rest = ADMIN_TOKEN

\* authHeader?.startsWith("Bearer ") and token === ADMIN_TOKEN && ADMIN_TOKEN.length > 0
verifyToken(authHeader) ==
    IF authHeader = None \/ authHeader[1].scheme # "Bearer " THEN FALSE
    ELSE LET token == authHeader[1].rest
         IN token = ADMIN_TOKEN /\ ADMIN_TOKEN # ""

Json(op, status, body) == [op |-> op, status |-> status, body |-> body]

Unauthorized(op) ==
    Json(op, 401, [ok |-> FALSE, message |-> <<"Unauthorized">>])

----------------------------------------------------------------------------
(* POST /api/apply *)

\* what an apply handler returns: the response, with the handler that ran, the
\* return statement it left by, and the gender and desired date it had parsed
\* once it was past the consent check (None before)
ApplyReply(handler, at, data, status, body) ==
    [op |-> "POST /api/apply", handler |-> handler, at |-> at, data |-> data,
     status |-> status, body |-> body]

\* parseInt(data.age, 10) || null: NaN and 0 are falsy
ageNumber(data) ==
    LET n == parseInt(data.age)
    IN IF n = None \/ n[1] = 0 THEN None ELSE n

\* the row the handler inserts; the store assigns the id
NewApplication(data, desiredDate) ==
    [id |-> nextId, age |-> ageNumber(data), gender |-> data.gender,
     desired_date |-> desiredDate,
     agree_privacy |-> CoerceBoolean(data.agreePrivacy), status |-> "pending"]

\* data.desiredDate?.trim() || null
NormalDesiredDate(data) ==
    IF data.desiredDate = None THEN None
    ELSE LET t == Trim(data.desiredDate[1])
         IN IF NonEmpty(t) THEN t.core ELSE None

\* a handler without the honeypot check
HoneypotIgnored(data) == FALSE

\* data.website && data.website.trim().length > 0
HoneypotTripped(data) ==
    /\ data.website # None
    /\ NonEmpty(data.website[1])
    /\ NonEmpty(Trim(data.website[1]))

\* an insert that stores the row although the store reports an error
InsertApplicationOnError(handler, data, desiredDate, insertError) ==
    LET parsed == Some([gender |-> data.gender, desiredDate |-> desiredDate]) IN
    /\ nextId <= MaxApps
    /\ applications' = applications \cup {NewApplication(data, desiredDate)}
    /\ nextId' = nextId + 1
    /\ resp' = IF insertError
               THEN ApplyReply(handler, "insert error", parsed, 500,
                               [ok |-> FALSE, message |-> <<"save error">>])
               ELSE ApplyReply(handler, "inserted", parsed, 200, [ok |-> TRUE])

\* the insert and what follows it, while the store's serial id is at most cap
InsertApplicationUpTo(cap, handler, data, desiredDate, insertError) ==
    LET parsed == Some([gender |-> data.gender, desiredDate |-> desiredDate]) IN
    IF insertError
    THEN /\ resp' = ApplyReply(handler, "insert error", parsed, 500,
                               [ok |-> FALSE, message |-> <<"save error">>])
         /\ UNCHANGED <<applications, nextId>>
    ELSE /\ nextId <= cap
         /\ applications' = applications \cup {NewApplication(data, desiredDate)}
         /\ nextId' = nextId + 1
         /\ resp' = ApplyReply(handler, "inserted", parsed, 200, [ok |-> TRUE])

InsertApplication(handler, data, desiredDate, insertError) ==
    InsertApplicationUpTo(MaxApps, handler, data, desiredDate, insertError)

\* a gate that asks for consent before it looks at the honeypot
ApplyGateConsentFirst(handler, body) ==
    IF body = None
    THEN Some(ApplyReply(handler, "catch", None, 500,
                         [ok |-> FALSE, message |-> <<"server error">>]))
    ELSE IF ~SchemaSuccess(body[1])
    THEN Some(ApplyReply(handler, "invalid", None, 400,
                         [ok |-> FALSE, message |-> <<"check your input">>]))
    ELSE IF ~CoerceBoolean(body[1].agreePrivacy)
    THEN Some(ApplyReply(handler, "no consent", None, 400,
                         [ok |-> FALSE, message |-> <<"consent required">>]))
    ELSE IF HoneypotTripped(body[1])
    THEN Some(ApplyReply(handler, "honeypot", None, 200, [ok |-> TRUE]))
    ELSE None

\* what the handler does up to and including the consent check: the reply it
\* returns there, or None when it goes on
ApplyGate(handler, body) ==
    IF body = None
    THEN Some(ApplyReply(handler, "catch", None, 500,
                         [ok |-> FALSE, message |-> <<"server error">>]))
    ELSE IF ~SchemaSuccess(body[1])
    THEN Some(ApplyReply(handler, "invalid", None, 400,
                         [ok |-> FALSE, message |-> <<"check your input">>]))
    ELSE IF HoneypotTripped(body[1])
    THEN Some(ApplyReply(handler, "honeypot", None, 200, [ok |-> TRUE]))
    ELSE IF ~CoerceBoolean(body[1].agreePrivacy)
    THEN Some(ApplyReply(handler, "no consent", None, 400,
                         [ok |-> FALSE, message |-> <<"consent required">>]))
    ELSE None

\* the server-side re-check: for a date and gender male or female only
Recheck(desiredDate, gender) ==
    IF desiredDate # None /\ gender \in {"male", "female"}
    THEN checkDateAvailability(desiredDate[1], gender)
    ELSE [isAvailable |-> TRUE, message |-> None]

\* the handler with the availability re-check; body = None is a request whose
\* JSON does not parse
ApplyPost(body, insertError) ==
    LET handler == "ApplyPost"
        gate    == ApplyGate(handler, body)
    IN
    /\ IF gate # None
       THEN /\ resp' = gate[1]
            /\ UNCHANGED <<applications, nextId>>
       ELSE LET data         == body[1]
                desiredDate  == NormalDesiredDate(data)
                availability == Recheck(desiredDate, data.gender)
            IN IF ~availability.isAvailable
               THEN /\ resp' = ApplyReply(handler, "closed",
                           Some([gender |-> data.gender,
                                 desiredDate |-> desiredDate]),
                           400,
                           [ok |-> FALSE,
                            message |-> Coalesce(availability.message, <<"closed">>),
                            isClosed |-> TRUE])
                    /\ UNCHANGED <<applications, nextId>>
               ELSE InsertApplication(handler, data, desiredDate, insertError)
    /\ req' = [op |-> "POST /api/apply", handler |-> "ApplyPost", body |-> body]
    /\ UNCHANGED <<inflight, page, env, date_settings, weekday_settings>>

\* the handler of src/app/api/apply/route.ts: no availability re-check
ApplyPostLegacy(body, insertError) ==
    LET handler == "ApplyPostLegacy"
        gate    == ApplyGate(handler, body)
    IN
    /\ IF gate # None
       THEN /\ resp' = gate[1]
            /\ UNCHANGED <<applications, nextId>>
       ELSE InsertApplication(handler, body[1], NormalDesiredDate(body[1]), insertError)
    /\ req' = [op |-> "POST /api/apply", handler |-> "ApplyPostLegacy", body |-> body]
    /\ UNCHANGED <<inflight, page, env, date_settings, weekday_settings>>

----------------------------------------------------------------------------
(* GET /api/availability?date= *)

\* the reply of the single-date branch
AvailabilityGetReply(date) ==
    LET status == getDateStatus(date)
    IN Json("GET /api/availability", 200,
            [ok |-> TRUE, date |-> date,
             male |-> status.maleCount, female |-> status.femaleCount,
             maxMale |-> status.maxMale, maxFemale |-> status.maxFemale,
             isMaleClosed |-> status.isMaleClosed,
             isFemaleClosed |-> status.isFemaleClosed])

AvailabilityGet(date) ==
    /\ resp' = AvailabilityGetReply(date)
    /\ req' = [op |-> "GET /api/availability", date |-> date]
    /\ UNCHANGED <<inflight, page, env, applications, date_settings, weekday_settings, nextId>>

----------------------------------------------------------------------------
(* /api/admin/applications *)

\* GET ?status= : the list, filtered by status when one is given
AdminApplicationsGet(authHeader, status) ==
    LET op == "GET /api/admin/applications" IN
    /\ resp' = IF ~verifyToken(authHeader)
               THEN Unauthorized(op)
               ELSE Json(op, 200,
                        [ok |-> TRUE,
                         data |-> IF status = None THEN applications
                                  ELSE {a \in applications : a.status = status[1]}])
    /\ req' = [op |-> op, authHeader |-> authHeader, status |-> status]
    /\ UNCHANGED <<inflight, page, env, applications, date_settings, weekday_settings, nextId>>

\* PATCH: body {id, status, note?}; None is a body whose JSON does not parse
\* an update that writes admin_note also when no note was sent
updateDataAlwaysNote(body) ==
    [status |-> body.status[1],
     admin_note |-> IF body.note = None THEN None ELSE body.note[1]]

\* const updateData = { status }; if (note !== undefined) updateData.admin_note = note
updateData(body) ==
    IF body.note = None
    THEN [status |-> body.status[1]]
    ELSE [status |-> body.status[1], admin_note |-> body.note[1]]

\* a row after .update(data): the columns of data replaced, the others kept
Updated(a, data) ==
    [f \in DOMAIN a \cup DOMAIN data |-> IF f \in DOMAIN data THEN data[f] ELSE a[f]]

\* an update that only moves a pending application
UpdateStatusFromPending(id, data) ==
    {IF a.id = id /\ a.status = "pending" THEN Updated(a, data) ELSE a :
        a \in applications}

\* .update(updateData).eq("id", id): the rows with the id take the columns as
\* sent, whatever they held
UpdateStatus(id, data) ==
    {IF a.id = id THEN Updated(a, data) ELSE a : a \in applications}

\* !status: a status that is missing or the empty string
StatusFalsy(status) == status = None \/ status[1] = ""

\* a status update that refuses to confirm an application for a date that is
\* closed for its gender
AdminApplicationsPatchGuarded(authHeader, body, updateError) ==
    LET op == "PATCH /api/admin/applications" IN
    /\ IF ~verifyToken(authHeader)
       THEN /\ resp' = Unauthorized(op)
            /\ UNCHANGED applications
       ELSE IF body = None
       THEN /\ resp' = Json(op, 500, [ok |-> FALSE, message |-> <<"Server error">>])
            /\ UNCHANGED applications
       ELSE IF body[1].id = None \/ body[1].id[1] = 0 \/ StatusFalsy(body[1].status)
       THEN /\ resp' = Json(op, 400,
                   [ok |-> FALSE, message |-> <<"Missing id or status">>])
            /\ UNCHANGED applications
       ELSE IF /\ body[1].status[1] = "confirmed"
               /\ \E a \in applications :
                      /\ a.id = body[1].id[1]
                      /\ a.desired_date # None
                      /\ ~checkDateAvailability(a.desired_date[1], a.gender).isAvailable
       THEN /\ resp' = Json(op, 400, [ok |-> FALSE, message |-> <<"closed">>])
            /\ UNCHANGED applications
       ELSE IF updateError
       THEN /\ resp' = Json(op, 500, [ok |-> FALSE, message |-> <<"Update failed">>])
            /\ UNCHANGED applications
       ELSE /\ applications' = UpdateStatus(body[1].id[1], updateData(body[1]))
            /\ resp' = Json(op, 200, [ok |-> TRUE])
    /\ req' = [op |-> op, authHeader |-> authHeader, body |-> body]
    /\ UNCHANGED <<inflight, page, env, date_settings, weekday_settings, nextId>>

AdminApplicationsPatch(authHeader, body, updateError) ==
    LET op == "PATCH /api/admin/applications" IN
    /\ IF ~verifyToken(authHeader)
       THEN /\ resp' = Unauthorized(op)
            /\ UNCHANGED applications
       ELSE IF body = None
       THEN /\ resp' = Json(op, 500, [ok |-> FALSE, message |-> <<"Server error">>])
            /\ UNCHANGED applications
       ELSE IF body[1].id = None \/ body[1].id[1] = 0 \/ StatusFalsy(body[1].status)
       THEN /\ resp' = Json(op, 400,
                   [ok |-> FALSE, message |-> <<"Missing id or status">>])
            /\ UNCHANGED applications
       ELSE IF updateError
       THEN /\ resp' = Json(op, 500, [ok |-> FALSE, message |-> <<"Update failed">>])
            /\ UNCHANGED applications
       ELSE /\ applications' = UpdateStatus(body[1].id[1], updateData(body[1]))
            /\ resp' = Json(op, 200, [ok |-> TRUE])
    /\ req' = [op |-> op, authHeader |-> authHeader, body |-> body]
    /\ UNCHANGED <<inflight, page, env, date_settings, weekday_settings, nextId>>

\* DELETE ?id=
AdminApplicationsDelete(authHeader, id, deleteError) ==
    LET op == "DELETE /api/admin/applications" IN
    /\ IF ~verifyToken(authHeader)
       THEN /\ resp' = Unauthorized(op)
            /\ UNCHANGED applications
       ELSE IF id = None
       THEN /\ resp' = Json(op, 400, [ok |-> FALSE, message |-> <<"Missing id">>])
            /\ UNCHANGED applications
       ELSE IF deleteError
       THEN /\ resp' = Json(op, 500, [ok |-> FALSE, message |-> <<"Delete failed">>])
            /\ UNCHANGED applications
       ELSE /\ applications' = {a \in applications : a.id # id[1]}
            /\ resp' = Json(op, 200, [ok |-> TRUE])
    /\ req' = [op |-> op, authHeader |-> authHeader, id |-> id]
    /\ UNCHANGED <<inflight, page, env, date_settings, weekday_settings, nextId>>

----------------------------------------------------------------------------
(* /api/admin/settings *)

\* an upsert that adds the row and keeps the one it conflicts with
UpsertDateAppend(row) == date_settings \cup {row}

\* upsert(row, {onConflict: key}): the row replaces the one with its key
UpsertDate(row) == {s \in date_settings : s.date # row.date} \cup {row}

UpsertWeekday(row) == {s \in weekday_settings : s.weekday # row.weekday} \cup {row}

\* maxMale ?? defaultMax, as the column value written
SettingValue(v, defaultMax) == Some(Coalesce(v, defaultMax))

\* what a JSON body may give for weekday besides an integer n (written
\* Some(n)) and nothing (None): null, and a number strictly between n and n + 1
JsNull == <<"null", 0>>

JsFraction(n) == <<"fraction", n>>

\* weekday < 0 and weekday > 6 as JavaScript compares: null counts as 0
JsLessThanZero(w) ==
    IF Len(w) = 1 THEN w[1] < 0 ELSE w[1] = "fraction" /\ w[2] < 0

JsGreaterThanSix(w) ==
    IF Len(w) = 1 THEN w[1] > 6 ELSE w[1] = "fraction" /\ w[2] >= 6

\* weekday is the integer key of weekday_settings (onConflict: "weekday"): the
\* store takes no null and no fraction for it
WeekdayKeyRefused(w) == Len(w) # 1

\* POST with body {type?, date?, weekday?, maxMale, maxFemale}; None is a body
\* whose JSON does not parse
AdminSettingsPost(authHeader, body, upsertError) ==
    LET op == "POST /api/admin/settings"
        defaultMax == getDefaultMax
    IN
    /\ IF ~verifyToken(authHeader)
       THEN /\ resp' = Unauthorized(op)
            /\ UNCHANGED <<date_settings, weekday_settings>>
       ELSE IF body = None
       THEN /\ resp' = Json(op, 500, [ok |-> FALSE, message |-> <<"Server error">>])
            /\ UNCHANGED <<date_settings, weekday_settings>>
       ELSE LET b == body[1] IN
            IF b.type = Some("weekday")
            THEN IF \/ b.weekday = None
                    \/ JsLessThanZero(b.weekday)
                    \/ JsGreaterThanSix(b.weekday)
                 THEN /\ resp' = Json(op, 400,
                             [ok |-> FALSE,
                              message |-> <<"Valid weekday (0-6) is required">>])
                      /\ UNCHANGED <<date_settings, weekday_settings>>
                 ELSE IF upsertError \/ WeekdayKeyRefused(b.weekday)
                 THEN /\ resp' = Json(op, 500,
                             [ok |-> FALSE,
                              message |-> <<"Failed to save weekday settings">>])
                      /\ UNCHANGED <<date_settings, weekday_settings>>
                 ELSE /\ weekday_settings' = UpsertWeekday(
                             [weekday    |-> b.weekday[1],
                              max_male   |-> SettingValue(b.maxMale, defaultMax),
                              max_female |-> SettingValue(b.maxFemale, defaultMax)])
                      /\ resp' = Json(op, 200, [ok |-> TRUE])
                      /\ UNCHANGED date_settings
            ELSE IF b.date = None
            THEN /\ resp' = Json(op, 400,
                        [ok |-> FALSE, message |-> <<"Date is required">>])
                 /\ UNCHANGED <<date_settings, weekday_settings>>
            ELSE IF upsertError
            THEN /\ resp' = Json(op, 500,
                        [ok |-> FALSE, message |-> <<"Failed to save settings">>])
                 /\ UNCHANGED <<date_settings, weekday_settings>>
            ELSE /\ date_settings' = UpsertDate(
                        [date       |-> b.date[1],
                         max_male   |-> SettingValue(b.maxMale, defaultMax),
                         max_female |-> SettingValue(b.maxFemale, defaultMax)])
                 /\ resp' = Json(op, 200, [ok |-> TRUE])
                 /\ UNCHANGED weekday_settings
    /\ req' = [op |-> op, handler |-> "AdminSettingsPost", authHeader |-> authHeader,
                body |-> body]
    /\ UNCHANGED <<inflight, page, env, applications, nextId>>

\* the date-only POST of src/app/api/admin/settings/route.ts
AdminSettingsPostLegacy(authHeader, body, upsertError) ==
    LET op == "POST /api/admin/settings"
    IN
    /\ IF ~verifyToken(authHeader)
       THEN /\ resp' = Unauthorized(op)
            /\ UNCHANGED date_settings
       ELSE IF body = None
       THEN /\ resp' = Json(op, 500, [ok |-> FALSE, message |-> <<"Server error">>])
            /\ UNCHANGED date_settings
       ELSE IF body[1].date = None
       THEN /\ resp' = Json(op, 400,
                   [ok |-> FALSE, message |-> <<"Date is required">>])
            /\ UNCHANGED date_settings
       ELSE IF upsertError
       THEN /\ resp' = Json(op, 500,
                   [ok |-> FALSE, message |-> <<"Failed to save settings">>])
            /\ UNCHANGED date_settings
       ELSE LET defaultMax == getDefaultMax IN
            /\ date_settings' = UpsertDate(
                   [date       |-> body[1].date[1],
                    max_male   |-> SettingValue(body[1].maxMale, defaultMax),
                    max_female |-> SettingValue(body[1].maxFemale, defaultMax)])
            /\ resp' = Json(op, 200, [ok |-> TRUE])
    /\ req' = [op |-> op, handler |-> "AdminSettingsPostLegacy",
                authHeader |-> authHeader, body |-> body]
    /\ UNCHANGED <<inflight, page, env, applications, weekday_settings, nextId>>

\* DELETE ?date= | ?weekday= ; the query values are strings or null
AdminSettingsDelete(authHeader, date, weekday, deleteError) ==
    LET op == "DELETE /api/admin/settings" IN
    /\ IF ~verifyToken(authHeader)
       THEN /\ resp' = Unauthorized(op)
            /\ UNCHANGED <<date_settings, weekday_settings>>
       ELSE IF weekday # None
       THEN LET weekdayNum == parseInt(weekday[1]) IN
            IF weekdayNum = None \/ weekdayNum[1] < 0 \/ weekdayNum[1] > 6
            THEN /\ resp' = Json(op, 400,
                        [ok |-> FALSE,
                         message |-> <<"Valid weekday (0-6) is required">>])
                 /\ UNCHANGED <<date_settings, weekday_settings>>
            ELSE IF deleteError
            THEN /\ resp' = Json(op, 500,
                        [ok |-> FALSE, message |-> <<"Failed to delete">>])
                 /\ UNCHANGED <<date_settings, weekday_settings>>
            ELSE /\ weekday_settings' =
                        {s \in weekday_settings : s.weekday # weekdayNum[1]}
                 /\ resp' = Json(op, 200, [ok |-> TRUE])
                 /\ UNCHANGED date_settings
       ELSE IF date = None
       THEN /\ resp' = Json(op, 400,
                   [ok |-> FALSE, message |-> <<"Date or weekday is required">>])
            /\ UNCHANGED <<date_settings, weekday_settings>>
       ELSE IF deleteError
       THEN /\ resp' = Json(op, 500,
                   [ok |-> FALSE, message |-> <<"Failed to delete">>])
            /\ UNCHANGED <<date_settings, weekday_settings>>
       ELSE /\ date_settings' = {s \in date_settings : s.date # date[1]}
            /\ resp' = Json(op, 200, [ok |-> TRUE])
            /\ UNCHANGED weekday_settings
    /\ req' = [op |-> op, handler |-> "AdminSettingsDelete", authHeader |-> authHeader,
                date |-> date, weekday |-> weekday]
    /\ UNCHANGED <<inflight, page, env, applications, nextId>>

\* the date-only DELETE of src/app/api/admin/settings/route.ts
AdminSettingsDeleteLegacy(authHeader, date, deleteError) ==
    LET op == "DELETE /api/admin/settings" IN
    /\ IF ~verifyToken(authHeader)
       THEN /\ resp' = Unauthorized(op)
            /\ UNCHANGED date_settings
       ELSE IF date = None
       THEN /\ resp' = Json(op, 400,
                   [ok |-> FALSE, message |-> <<"Date is required">>])
            /\ UNCHANGED date_settings
       ELSE IF deleteError
       THEN /\ resp' = Json(op, 500,
                   [ok |-> FALSE, message |-> <<"Failed to delete">>])
            /\ UNCHANGED date_settings
       ELSE /\ date_settings' = {s \in date_settings : s.date # date[1]}
            /\ resp' = Json(op, 200, [ok |-> TRUE])
    /\ req' = [op |-> op, handler |-> "AdminSettingsDeleteLegacy",
                authHeader |-> authHeader, date |-> date, weekday |-> None]
    /\ UNCHANGED <<inflight, page, env, applications, weekday_settings, nextId>>

----------------------------------------------------------------------------
(* The whole service: Spec *)

\* the header of the administrator and one that is not theirs (the other
\* headers are sent under SpecAuth)
AuthHeaders == {Bearer("tok"), Bearer("bad")}

\* desiredDate as posted: absent, blank, a padded date
DesiredDateInputs == {None, Some(Text(1, None, 0)), Some(Text(1, Some(D1), 1))}

\* website as posted: white space only, or filled by a bot
WebsiteInputs == {Some(Text(1, None, 0)), Some(Text(0, Some("bot"), 1))}

\* the forms that pass validation, honeypot and consent
AcceptedForms ==
    {Some(FormBody(g, d, JsTrue, Some(Text(1, None, 0)))) :
        g \in Genders, d \in {None, Some(Text(1, Some(D1), 1))}}

ApplyBodies ==
    {None}
    \cup AcceptedForms
    \cup {Some(FormBody("male", Some(Text(1, Some(D1), 1)), JsFalse, None)),
          Some(FormBody("female", Some(Text(1, Some(D1), 1)), JsTrue,
                        Some(Text(0, Some("bot"), 1))))}
    \cup {Some([FormBody("female", Some(Text(0, Some(D1), 0)), JsTrue,
                         Some(Text(0, Some("bot"), 0))) EXCEPT !.name = 0]),
          Some([FormBody("male", Some(Text(0, Some(D1), 0)), JsFalse,
                         Some(Text(0, None, 0))) EXCEPT !.age = <<"1", "0", "0", "0">>]),
          Some([FormBody("unknown", None, JsTrue, None) EXCEPT !.phone = 13]),
          Some([FormBody("other", None, JsTrue, None)
                   EXCEPT !.optional["note"] = Some(501)])}

\* a request body with the outcome of the insert; the insert fails only where
\* a handler reaches it
ApplyRequests == (ApplyBodies \X {FALSE}) \cup (AcceptedForms \X {TRUE})

PatchBodies ==
    {None,
     Some([id |-> None, status |-> Some("confirmed"), note |-> None]),
     Some([id |-> Some(1), status |-> None, note |-> None])}
    \cup {Some([id |-> Some(i), status |-> Some(st), note |-> None]) :
            i \in 0..MaxApps, st \in {"pending", "confirmed"}}
    \cup {Some([id |-> Some(1), status |-> Some(st), note |-> None]) :
            st \in Statuses \cup {"", "archived"}}

SettingsBody(type, date, weekday, maxMale, maxFemale) ==
    [type |-> type, date |-> date, weekday |-> weekday,
     maxMale |-> maxMale, maxFemale |-> maxFemale]

\* the settings bodies of Spec: the date row that closes D1 (weekday rows are
\* posted under SpecCap)
SettingsBodies ==
    {None,
     Some(SettingsBody(None, Some(D1), None, Some(0), Some(0))),
     Some(SettingsBody(Some("weekday"), None, Some(7), None, Some(0)))}

\* the requests of the admin routes: header, parameters, outcome of the store
\* operation; a request that is not authorized is sent once per header
PatchRequests ==
    {<<h, Some([id |-> Some(1), status |-> Some("confirmed"), note |-> None]), FALSE>> :
        h \in AuthHeaders \ {Bearer("tok")}}
    \cup {<<Bearer("tok"), body, FALSE>> : body \in PatchBodies}
    \cup {<<Bearer("tok"), Some([id |-> Some(1), status |-> Some(st), note |-> None]),
            TRUE>> : st \in {"confirmed"}}

ApplicationsDeleteRequests ==
    {<<h, Some(1), FALSE>> : h \in AuthHeaders \ {Bearer("tok")}}
    \cup {<<Bearer("tok"), id, FALSE>> : id \in {None} \cup {Some(i) : i \in 1..MaxApps}}
    \cup {<<Bearer("tok"), Some(1), TRUE>>}

SettingsPostRequests ==
    {<<h, Some(SettingsBody(None, Some(D1), None, Some(0), Some(0))), FALSE>> :
        h \in AuthHeaders \ {Bearer("tok")}}
    \cup {<<Bearer("tok"), body, FALSE>> : body \in SettingsBodies}
    \cup {<<Bearer("tok"), Some(SettingsBody(None, Some(D1), None, Some(0), Some(0))), TRUE>>}

SettingsDeleteRequests ==
    {<<h, Some(D1), None, FALSE>> : h \in AuthHeaders \ {Bearer("tok")}}
    \cup {<<Bearer("tok"), None, None, FALSE>>,
          <<Bearer("tok"), Some(D1), None, FALSE>>,
          <<Bearer("tok"), Some(D1), None, TRUE>>,
          <<Bearer("tok"), None, Some(<<"4">>), FALSE>>}

Init ==
    /\ env = [DEFAULT_MAX_PER_GENDER |-> Some(<<"1">>), ADMIN_TOKEN |-> Some("tok"),
              TZ |-> 540]
    /\ applications = {}
    /\ date_settings = {}
    /\ weekday_settings = {}
    /\ nextId = 1
    /\ req = NoReq
    /\ inflight = {}
    /\ page = INITIAL_PAGE
    /\ resp = NoResp

Next ==
    \/ \E r \in ApplyRequests : ApplyPost(r[1], r[2])
    \/ \E r \in ApplyRequests : ApplyPostLegacy(r[1], r[2])
    \/ \E date \in Dates : AvailabilityGet(date)
    \/ \E date \in Dates, gender \in Genders : CallCheckDateAvailability(date, gender)
    \/ \E r \in PatchRequests : AdminApplicationsPatch(r[1], r[2], r[3])
    \/ \E r \in ApplicationsDeleteRequests : AdminApplicationsDelete(r[1], r[2], r[3])
    \/ \E r \in SettingsPostRequests : AdminSettingsPost(r[1], r[2], r[3])
    \/ \E r \in SettingsPostRequests : AdminSettingsPostLegacy(r[1], r[2], r[3])
    \/ \E r \in SettingsDeleteRequests : AdminSettingsDelete(r[1], r[2], r[3], r[4])
    \/ \E r \in SettingsDeleteRequests :
           r[3] = None /\ AdminSettingsDeleteLegacy(r[1], r[2], r[4])

Spec == Init /\ [][Next]_vars

----------------------------------------------------------------------------
(* The apply route on the fields it reads: SpecApply *)

IntakeForm(gender, desiredDate, age, agreePrivacy, website) ==
    [FormBody(gender, desiredDate, agreePrivacy, website) EXCEPT !.age = age]

\* age as posted: a number, zero, no number, a number followed by a letter
AgeInputs == {<<"2", "9">>, <<"0">>, <<"a", "b", "c">>, <<"1", "2", "x">>}

\* agreePrivacy as posted: true, false, the string "false", absent
AgreeInputs == {JsTrue, JsFalse, JsString("false"), JsUndefined}

\* website as posted: absent, "", white space only, filled
HoneypotInputs ==
    {None, Some(Text(0, None, 0)), Some(Text(2, None, 0)),
     Some(Text(0, Some("bot"), 1))}

IntakeBodies ==
    {Some(IntakeForm(g, d, age, JsTrue, None)) :
        g \in {"male", "other"}, d \in DesiredDateInputs, age \in AgeInputs}
    \cup {Some(IntakeForm("male", Some(Text(1, Some(D1), 1)), <<"2", "9">>, a, w)) :
            a \in AgreeInputs, w \in HoneypotInputs}
    \cup {Some([IntakeForm("male", Some(Text(1, Some(D1), 1)), <<"2", "9">>, a,
                            Some(Text(0, Some("bot"), 1))) EXCEPT !.name = 0]) :
            a \in {JsTrue, JsFalse}}

IntakeRequests ==
    (IntakeBodies \X {FALSE})
    \cup {<<Some(IntakeForm("other", None, <<"2", "9">>, JsTrue, None)), TRUE>>}

InitApply ==
    /\ env = [DEFAULT_MAX_PER_GENDER |-> Some(<<"1">>), ADMIN_TOKEN |-> Some("tok"),
              TZ |-> 540]
    /\ applications = {}
    /\ date_settings \in
           {{}, {[date |-> D1, max_male |-> Some(0), max_female |-> Some(0)]}}
    /\ weekday_settings = {}
    /\ nextId = 1
    /\ req = NoReq
    /\ inflight = {}
    /\ page = INITIAL_PAGE
    /\ resp = NoResp

NextApply ==
    \/ \E r \in IntakeRequests : ApplyPost(r[1], r[2])
    \/ \E r \in IntakeRequests : ApplyPostLegacy(r[1], r[2])

SpecApply == InitApply /\ [][NextApply]_vars

----------------------------------------------------------------------------
(* The settings routes and the resolver: SpecCap *)

\* the maxMale / maxFemale an admin posts
CapPairs ==
    {[maxMale |-> Some(3), maxFemale |-> None],
     [maxMale |-> Some(0 - 1), maxFemale |-> Some(0)]}

CapSettingsBodies ==
    {None}
    \cup {Some(SettingsBody(type, date, None, p.maxMale, p.maxFemale)) :
            type \in {None, Some("date")}, date \in {None, Some(D1), Some(D2)},
            p \in CapPairs}
    \cup {Some(SettingsBody(Some("weekday"), None, weekday, p.maxMale, p.maxFemale)) :
            weekday \in {None, Some(3), Some(4), Some(7), Some(0 - 1), JsNull,
                         JsFraction(4)},
            p \in CapPairs}

CapAuthHeaders == {Bearer("tok"), Bearer("bad")}

InitCap ==
    /\ env \in [DEFAULT_MAX_PER_GENDER : {None, Some(<<>>), Some(<<"2">>)},
                ADMIN_TOKEN : {Some("tok")},
                TZ : TimeZones]
    /\ applications = {}
    /\ date_settings \in
           {{}, {[date |-> D1, max_male |-> Some(2), max_female |-> None]}}
    /\ weekday_settings \in
           {{}, {[weekday |-> 4, max_male |-> None, max_female |-> Some(1)]}}
    /\ nextId = 1
    /\ req = NoReq
    /\ inflight = {}
    /\ page = INITIAL_PAGE
    /\ resp = NoResp

\* the requests of the settings routes under SpecCap: a request that is not
\* authorized is sent once, and the store fails on one request of each kind
CapPostRequests ==
    {<<Bearer("bad"), Some(SettingsBody(None, Some(D1), None, Some(3), None)), FALSE>>,
     <<Bearer("tok"), Some(SettingsBody(None, Some(D1), None, Some(3), None)), TRUE>>,
     <<Bearer("tok"), Some(SettingsBody(Some("weekday"), None, Some(4), Some(3), None)),
       TRUE>>}
    \cup {<<Bearer("tok"), body, FALSE>> : body \in CapSettingsBodies}

CapDeleteRequests ==
    {<<Bearer("bad"), Some(D1), None, FALSE>>,
     <<Bearer("bad"), None, Some(<<"4">>), FALSE>>,
     <<Bearer("tok"), Some(D1), None, TRUE>>,
     <<Bearer("tok"), None, Some(<<"4">>), TRUE>>,
     <<Bearer("tok"), Some(D1), Some(<<"4">>), FALSE>>}
    \cup {<<Bearer("tok"), date, None, FALSE>> : date \in {None, Some(D1), Some(D2)}}
    \cup {<<Bearer("tok"), None, Some(weekday), FALSE>> :
            weekday \in {<<"3">>, <<"4">>, <<"7">>, <<"x">>, <<"-", "1">>,
                         <<"4", ".", "5">>}}

NextCap ==
    \/ \E r \in CapPostRequests : AdminSettingsPost(r[1], r[2], r[3])
    \/ \E r \in CapPostRequests : AdminSettingsPostLegacy(r[1], r[2], r[3])
    \/ \E r \in CapDeleteRequests : AdminSettingsDelete(r[1], r[2], r[3], r[4])
    \/ \E r \in CapDeleteRequests :
           r[3] = None /\ AdminSettingsDeleteLegacy(r[1], r[2], r[4])
    \/ \E date \in Dates : CallGetDateStatus(date)
    \/ \E date \in Dates : CallGetDateStatusTwoTier(date)
    \/ \E date \in Dates : AvailabilityGet(date)

SpecCap == InitCap /\ [][NextCap]_vars

----------------------------------------------------------------------------
(* What the claims speak of, stated apart from the code *)

\* the confirmed applications of a gender for a date
ConfirmedCount(date, gender) ==
    Cardinality({a \in applications :
                    /\ a.status = "confirmed"
                    /\ a.desired_date = Some(date)
                    /\ a.gender = gender})

\* the day of the week of a calendar date, 0 = Sunday (Sakamoto's method)
CalendarWeekday(date) ==
    LET t == <<0, 3, 2, 5, 0, 3, 5, 1, 4, 6, 2, 4>>
        y == IF date[2] < 3 THEN date[1] - 1 ELSE date[1]
    IN (y + y \div 4 - y \div 100 + y \div 400 + t[date[2]] + date[3]) % 7

\* the configured default capacity: 4 when DEFAULT_MAX_PER_GENDER is unset or empty
ConfiguredDefault ==
    IF env.DEFAULT_MAX_PER_GENDER \in {None, Some(<<>>)} THEN 4
    ELSE CHOOSE n \in 0..99 :
             env.DEFAULT_MAX_PER_GENDER[1] \in
                 {<<c>> : c \in {"0", "1", "2", "3", "4", "5", "6", "7", "8", "9"}}
             /\ DigitValue(env.DEFAULT_MAX_PER_GENDER[1][1]) = n

\* a column value with null read as the default
OrDefault(v) == IF v = None THEN ConfiguredDefault ELSE v[1]

HasDateRow(date) == \E s \in date_settings : s.date = date

DateRow(date) == CHOOSE s \in date_settings : s.date = date

HasWeekdayRow(weekday) == \E s \in weekday_settings : s.weekday = weekday

WeekdayRow(weekday) == CHOOSE s \in weekday_settings : s.weekday = weekday

\* the last operation was a call of the library that resolved capacities
IsStatusCall == resp.op \in {"getDateStatus", "getDateStatusTwoTier"}

\* the last operation resolved the capacity of a date with the three-tier
\* resolver, or with either resolver
IsResolution == resp.op \in {"getDateStatus", "GET /api/availability"}

IsAnyResolution ==
    resp.op \in {"getDateStatus", "getDateStatusTwoTier", "GET /api/availability"}

\* the date it resolved and the maxima it returned
Resolved ==
    IF resp.op = "GET /api/availability"
    THEN [date |-> resp.body.date, maxMale |-> resp.body.maxMale,
          maxFemale |-> resp.body.maxFemale]
    ELSE [date |-> resp.date, maxMale |-> resp.ret.maxMale,
          maxFemale |-> resp.ret.maxFemale]

IsCheckCall == resp.op \in {"checkDateAvailability", "checkDateAvailabilityTwoTier"}

\* the last operation was an apply request that got past the consent check
PastConsent(r) ==
    r.op = "POST /api/apply" /\ r.at \in {"closed", "insert error", "inserted"}

\* the resolved maximum of a gender for a date
ResolvedMax(date, gender) ==
    IF gender = "male" THEN getMaxCapacity(date).maxMale
    ELSE getMaxCapacity(date).maxFemale

----------------------------------------------------------------------------
(* Claims *)

\* C1: a submission that passed validation, honeypot and consent, with a
\* non-blank desired date and gender male or female, is rejected with ok:false,
\* isClosed:true, HTTP 400 and inserts no row when the confirmed count of its
\* gender for its date is at least the resolved maximum.
C1_ClosedSubmissionRejected ==
    [][(/\ PastConsent(resp')
        /\ resp'.data[1].desiredDate # None
        /\ resp'.data[1].gender \in {"male", "female"}
        /\ ConfirmedCount(resp'.data[1].desiredDate[1], resp'.data[1].gender)
               >= ResolvedMax(resp'.data[1].desiredDate[1], resp'.data[1].gender))
       => /\ resp'.status = 400
          /\ resp'.body.ok = FALSE
          /\ "isClosed" \in DOMAIN resp'.body
          /\ resp'.body.isClosed = TRUE
          /\ applications' = applications]_vars

\* C2: for a date that has a date_settings row, the resolved maxima are that
\* row's values, each null read as the default; the weekday row is not used.
C2_DateTierOnly ==
    (IsAnyResolution /\ HasDateRow(Resolved.date)) =>
        /\ Resolved.maxMale = OrDefault(DateRow(Resolved.date).max_male)
        /\ Resolved.maxFemale = OrDefault(DateRow(Resolved.date).max_female)

\* the date row {2, null} with default 4 resolves to {2, 4} although the
\* weekday row of that date holds another max_female
C2_Witness ==
    /\ resp.op = "getDateStatus"
    /\ resp.date = D1
    /\ HasDateRow(D1)
    /\ DateRow(D1).max_male = Some(2)
    /\ DateRow(D1).max_female = None
    /\ ConfiguredDefault = 4
    /\ HasWeekdayRow(getWeekdayFromDate(D1))
    /\ WeekdayRow(getWeekdayFromDate(D1)).max_female = Some(1)
    /\ resp.ret.maxMale = 2
    /\ resp.ret.maxFemale = 4

\* C3: for a date with no date_settings row whose weekday has no
\* weekday_settings row, the resolved maxima are both the default.
C3_DefaultTier ==
    (/\ IsAnyResolution
     /\ ~HasDateRow(Resolved.date)
     /\ ~HasWeekdayRow(CalendarWeekday(Resolved.date)))
    => /\ Resolved.maxMale = ConfiguredDefault
       /\ Resolved.maxFemale = ConfiguredDefault

\* C4: for a date with no date_settings row whose day of the week (of the
\* calendar date) has a weekday_settings row, the resolved maxima are that
\* row's values, each null read as the default.
C4_WeekdayTier ==
    (/\ IsResolution
     /\ ~HasDateRow(Resolved.date)
     /\ HasWeekdayRow(CalendarWeekday(Resolved.date)))
    => /\ Resolved.maxMale =
              OrDefault(WeekdayRow(CalendarWeekday(Resolved.date)).max_male)
       /\ Resolved.maxFemale =
              OrDefault(WeekdayRow(CalendarWeekday(Resolved.date)).max_female)

\* C5: in every result of checkDateAvailability and getDateStatus a gender is
\* closed exactly when its count is at least its maximum.
C5_ClosedIffAtLeastMax ==
    (IsStatusCall \/ IsCheckCall) =>
        /\ resp.ret.isMaleClosed <=> (resp.ret.maleCount >= resp.ret.maxMale)
        /\ resp.ret.isFemaleClosed <=> (resp.ret.femaleCount >= resp.ret.maxFemale)

\* a count equal to a positive maximum, reported closed
C5_Witness ==
    /\ resp.op = "getDateStatus"
    /\ resp.ret.maleCount = resp.ret.maxMale
    /\ resp.ret.maxMale > 0
    /\ resp.ret.isMaleClosed
    /\ resp.ret.femaleCount < resp.ret.maxFemale
    /\ ~resp.ret.isFemaleClosed

\* C6: checkDateAvailability for male is unavailable exactly when male is
\* closed, for female exactly when female is closed; it carries a message
\* exactly when unavailable, and the message names the date and the count and
\* maximum of the asked gender.
C6_DecisionAndMessage ==
    IsCheckCall =>
        LET r == resp.ret IN
        /\ resp.gender = "male" => (r.isAvailable <=> ~r.isMaleClosed)
        /\ resp.gender = "female" => (r.isAvailable <=> ~r.isFemaleClosed)
        /\ (r.message # None) <=> ~r.isAvailable
        /\ r.message # None =>
               r.message[1] =
                   IF resp.gender = "male"
                   THEN <<"date", resp.date, "male closed", r.maleCount, "/", r.maxMale>>
                   ELSE <<"date", resp.date, "female closed", r.femaleCount, "/",
                          r.maxFemale>>

\* default 4, no overrides, four confirmed male applications for 2026-01-15
C6_Witness ==
    /\ resp.op = "checkDateAvailability"
    /\ resp.date = D1
    /\ resp.gender = "male"
    /\ env.DEFAULT_MAX_PER_GENDER = None
    /\ date_settings = {}
    /\ ConfirmedCount(D1, "male") = 4
    /\ resp.ret.isAvailable = FALSE
    /\ resp.ret.maleCount = 4
    /\ resp.ret.maxMale = 4
    /\ resp.ret.message = Some(<<"date", D1, "male closed", 4, "/", 4>>)

\* C7: checkDateAvailability for gender other is available and carries no
\* message, whatever is closed; and an apply request of gender other is never
\* answered with a capacity rejection.
C7_OtherNeverGated ==
    /\ (resp.op = "checkDateAvailability" /\ resp.gender = "other") =>
           /\ resp.ret.isAvailable
           /\ resp.ret.message = None
    /\ (resp.op = "POST /api/apply" /\ resp.data # None
            /\ resp.data[1].gender = "other") =>
           /\ resp.at # "closed"
           /\ "isClosed" \notin DOMAIN resp.body

\* gender other is available on a date where male and female are both closed
C7_Witness ==
    /\ resp.op = "checkDateAvailability"
    /\ resp.gender = "other"
    /\ resp.ret.isMaleClosed
    /\ resp.ret.isFemaleClosed
    /\ resp.ret.isAvailable
    /\ \E a \in applications :
           a.gender = "other" /\ a.desired_date = Some(resp.date)

\* C8: maleCount and femaleCount are the numbers of applications that are
\* confirmed, for the asked date, and male resp. female.
C8_CountsConfirmedOnly ==
    (IsStatusCall \/ IsCheckCall) =>
        /\ resp.ret.maleCount = ConfirmedCount(resp.date, "male")
        /\ resp.ret.femaleCount = ConfirmedCount(resp.date, "female")

\* one confirmed male counted beside a row of the same date that is not
\* confirmed
C8_Witness ==
    /\ resp.op = "checkDateAvailability"
    /\ resp.ret.maleCount = 1
    /\ resp.ret.femaleCount = 0
    /\ \E a, b \in applications :
           /\ a.desired_date = Some(resp.date) /\ a.gender = "male"
           /\ a.status = "confirmed"
           /\ b.desired_date = Some(resp.date) /\ b.status # "confirmed"

\* C9: the maxima resolved for any date are non-negative integers.
C9_NonNegativeMaxima ==
    IsAnyResolution => (Resolved.maxMale \in Nat /\ Resolved.maxFemale \in Nat)

\* C10: an apply request adds exactly one row when it answers success past all
\* its checks and leaves the table as it was in every other outcome.
C10_OneInsertOrNone ==
    [][resp'.op = "POST /api/apply" =>
        IF resp'.at = "inserted"
        THEN /\ resp'.status = 200
             /\ resp'.body.ok = TRUE
             /\ \E row \in applications' :
                    /\ row.id \notin {a.id : a \in applications}
                    /\ row \notin applications
                    /\ applications' = applications \cup {row}
        ELSE applications' = applications]_vars

\* a success answer with the inserted row in the table
C10_Witness ==
    /\ resp.op = "POST /api/apply"
    /\ resp.at = "inserted"
    /\ resp.status = 200
    /\ \E a \in applications : a.id = nextId - 1 /\ a.status = "pending"

----------------------------------------------------------------------------
(* The admin routes under every token configuration: SpecAuth *)

\* the Authorization header: absent, "Bearer ", "Bearer tok", "Bearer bad",
\* "Basic tok"
AuthHeaderInputs ==
    {None, Bearer(""), Bearer("tok"), Bearer("bad"),
     Some([scheme |-> "Basic t", rest |-> "ok"])}

InitAuth ==
    /\ env \in [DEFAULT_MAX_PER_GENDER : {Some(<<"1">>)},
                ADMIN_TOKEN : {None, Some(""), Some("tok")},
                TZ : {540}]
    /\ applications =
           {[id |-> 1, age |-> Some(29), gender |-> "male", desired_date |-> Some(D1),
             agree_privacy |-> TRUE, status |-> "pending"]}
    /\ date_settings = {[date |-> D1, max_male |-> Some(2), max_female |-> None]}
    /\ weekday_settings = {[weekday |-> 4, max_male |-> None, max_female |-> Some(1)]}
    /\ nextId = 2
    /\ req = NoReq
    /\ inflight = {}
    /\ page = INITIAL_PAGE
    /\ resp = NoResp

NextAuth ==
    \/ \E h \in AuthHeaderInputs, status \in {None, Some("pending")} :
           AdminApplicationsGet(h, status)
    \/ \E h \in AuthHeaderInputs, st \in {"confirmed", "rejected"} :
           AdminApplicationsPatch(
               h, Some([id |-> Some(1), status |-> Some(st), note |-> None]), FALSE)
    \/ \E h \in AuthHeaderInputs : AdminApplicationsDelete(h, Some(1), FALSE)
    \/ \E h \in AuthHeaderInputs, body \in CapSettingsBodies :
           /\ body # None
           /\ body[1].maxMale = Some(3)
           /\ body[1].date # Some(D2)
           /\ AdminSettingsPost(h, body, FALSE)
    \/ \E h \in AuthHeaderInputs :
           AdminSettingsPostLegacy(
               h, Some(SettingsBody(None, Some(D1), None, Some(3), None)), FALSE)
    \/ \E h \in AuthHeaderInputs, r \in {<<Some(D1), None>>, <<None, Some(<<"4">>)>>} :
           AdminSettingsDelete(h, r[1], r[2], FALSE)
    \/ \E h \in AuthHeaderInputs : AdminSettingsDeleteLegacy(h, Some(D1), FALSE)

SpecAuth == InitAuth /\ [][NextAuth]_vars

----------------------------------------------------------------------------
(* Claims on the intake: SpecApply *)

\* an apply request whose body passes the structural validation
ValidSubmission(r) ==
    r.op = "POST /api/apply" /\ r.body # None /\ SchemaSuccess(r.body[1])

\* the website field holds at least one character
WebsiteNonEmpty(form) ==
    /\ form.website # None
    /\ \/ form.website[1].lead > 0
       \/ form.website[1].core # None
       \/ form.website[1].trail > 0

\* the website field holds a character that is not white space
WebsiteFilled(form) == form.website # None /\ form.website[1].core # None

\* the answer {ok: true} that is given to an accepted submission
AnsweredOk(r) == r.status = 200 /\ DOMAIN r.body = {"ok"} /\ r.body.ok = TRUE

\* C11 (as amended): a valid submission whose website field holds a character
\* that is not white space is answered {ok: true} and no row is created.
C11_FilledHoneypotDropped ==
    [][(ValidSubmission(req') /\ WebsiteFilled(req'.body[1]))
       => (AnsweredOk(resp') /\ applications' = applications)]_vars

\* C11 (as stated): a valid submission whose website field is non-empty is
\* answered {ok: true} and no row is created.
C11_NonEmptyHoneypotDropped ==
    [][(ValidSubmission(req') /\ WebsiteNonEmpty(req'.body[1]))
       => (AnsweredOk(resp') /\ applications' = applications)]_vars

\* a consenting submission with a filled website field, answered ok, nothing stored
C11_Witness ==
    /\ ValidSubmission(req)
    /\ req.body[1].website = Some(Text(0, Some("bot"), 1))
    /\ req.body[1].agreePrivacy = JsTrue
    /\ resp.at = "honeypot"
    /\ AnsweredOk(resp)
    /\ applications = {}

\* C12: a valid submission with no filled website field and agreePrivacy false
\* is answered ok:false, the consent message and HTTP 400, and inserts nothing;
\* every stored application has agree_privacy true.
C12_ConsentRequired ==
    [][/\ (/\ ValidSubmission(req')
           /\ ~WebsiteFilled(req'.body[1])
           /\ req'.body[1].agreePrivacy = JsFalse)
          => /\ resp'.status = 400
             /\ resp'.body.ok = FALSE
             /\ resp'.body.message = <<"consent required">>
             /\ applications' = applications
       /\ \A a \in applications' : a.agree_privacy = TRUE]_vars

\* agreePrivacy false beside a white-space-only website field, rejected for
\* consent while the table holds a row stored earlier
C12_Witness ==
    /\ ValidSubmission(req)
    /\ req.body[1].agreePrivacy = JsFalse
    /\ req.body[1].website = Some(Text(2, None, 0))
    /\ resp.at = "no consent"
    /\ resp.status = 400
    /\ applications # {}

\* the desired date a row should hold: the submitted date without the white
\* space around it, null when it is absent or blank
ExpectedDesiredDate(form) ==
    IF form.desiredDate = None THEN None
    ELSE IF form.desiredDate[1].core = None THEN None
    ELSE Some(form.desiredDate[1].core[1])

\* C13: the row an apply request inserts has status pending, desired_date the
\* trimmed submitted date (null when blank or absent) and age the integer
\* parsed from the submitted age (null when it does not parse).
C13_InsertedRow ==
    [][(req'.op = "POST /api/apply" /\ applications' # applications)
       => \E row \in applications' \ applications :
              /\ applications' = applications \cup {row}
              /\ row.status = "pending"
              /\ row.desired_date = ExpectedDesiredDate(req'.body[1])
              /\ row.age = parseInt(req'.body[1].age)]_vars

----------------------------------------------------------------------------
(* Claims on authorization: SpecAuth *)

\* the operations that require the administrator
AdminOps ==
    {"GET /api/admin/applications", "PATCH /api/admin/applications",
     "DELETE /api/admin/applications", "POST /api/admin/settings",
     "DELETE /api/admin/settings"}

\* the configured administrator token, empty when unset
ConfiguredToken == IF env.ADMIN_TOKEN = None THEN "" ELSE env.ADMIN_TOKEN[1]

\* the header is "Bearer " followed by exactly the configured token
PresentsConfiguredToken(h) ==
    h # None /\ h[1].scheme = "Bearer " /\ h[1].rest = ConfiguredToken

\* C14: an admin operation whose request has no Authorization header, a header
\* that is not a Bearer header, or a bearer token other than the configured
\* one is answered 401 and leaves the three tables unchanged.
C14_UnauthorizedRejected ==
    [][(req'.op \in AdminOps /\ ~PresentsConfiguredToken(req'.authHeader))
       => (resp'.status = 401 /\ store' = store)]_vars

\* a DELETE of an existing application with a wrong bearer token, while the
\* configured token is set: 401 and the row is still there
C14_Witness ==
    /\ req.op = "DELETE /api/admin/applications"
    /\ req.authHeader = Bearer("bad")
    /\ ConfiguredToken = "tok"
    /\ resp.status = 401
    /\ \E a \in applications : a.id = req.id[1]

\* C15: while the configured token is empty or unset, every admin request is
\* answered 401 and changes nothing, whatever bearer token it presents.
C15_EmptyTokenDeniesAll ==
    [][(req'.op \in AdminOps /\ ConfiguredToken = "")
       => (resp'.status = 401 /\ store' = store)]_vars

\* the header "Bearer " against an empty configured token, denied
C15_Witness ==
    /\ req.op = "POST /api/admin/settings"
    /\ req.authHeader = Bearer("")
    /\ env.ADMIN_TOKEN = Some("")
    /\ resp.status = 401

----------------------------------------------------------------------------
(* Claims on the settings routes: SpecCap *)

\* the value a settings row should hold for a supplied or omitted maximum
SuppliedOrDefault(v) == Some(IF v = None THEN ConfiguredDefault ELSE v[1])

\* the last request is a settings upsert that the route carried out
UpsertDone(r, answer) == r.op = "POST /api/admin/settings" /\ answer.status = 200

\* the upsert is keyed by weekday (only the route with weekday support has one)
KeyedByWeekday(r) ==
    r.handler = "AdminSettingsPost" /\ r.body[1].type = Some("weekday")

\* C16: a settings upsert that is carried out leaves exactly one row for its
\* key, holding the supplied maxima with the default for each omitted one;
\* the rows of other keys and the other table are unchanged.
C16_UpsertReplaces ==
    [][UpsertDone(req', resp') =>
        LET b == req'.body[1]
            male   == SuppliedOrDefault(b.maxMale)
            female == SuppliedOrDefault(b.maxFemale)
        IN IF KeyedByWeekday(req')
           THEN /\ {s \in weekday_settings' : s.weekday = b.weekday[1]} =
                       {[weekday |-> b.weekday[1], max_male |-> male,
                         max_female |-> female]}
                /\ {s \in weekday_settings' : s.weekday # b.weekday[1]} =
                       {s \in weekday_settings : s.weekday # b.weekday[1]}
                /\ date_settings' = date_settings
           ELSE /\ {s \in date_settings' : s.date = b.date[1]} =
                       {[date |-> b.date[1], max_male |-> male, max_female |-> female]}
                /\ {s \in date_settings' : s.date # b.date[1]} =
                       {s \in date_settings : s.date # b.date[1]}
                /\ weekday_settings' = weekday_settings]_vars

\* the weekday row {null, 1} replaced by an upsert of {3, omitted}: the row is
\* {3, default} and the 1 is gone
C16_Witness ==
    /\ UpsertDone(req, resp)
    /\ KeyedByWeekday(req)
    /\ req.body[1].weekday = Some(4)
    /\ req.body[1].maxMale = Some(3)
    /\ req.body[1].maxFemale = None
    /\ ConfiguredDefault = 2
    /\ weekday_settings = {[weekday |-> 4, max_male |-> Some(3), max_female |-> Some(2)]}

\* what resolution should yield for a date that has no date row
FallThrough(date) ==
    IF HasWeekdayRow(CalendarWeekday(date))
    THEN [maxMale   |-> OrDefault(WeekdayRow(CalendarWeekday(date)).max_male),
          maxFemale |-> OrDefault(WeekdayRow(CalendarWeekday(date)).max_female)]
    ELSE [maxMale |-> ConfiguredDefault, maxFemale |-> ConfiguredDefault]

\* the last request is a settings delete that the route carried out
DeleteDone(r, answer) == r.op = "DELETE /api/admin/settings" /\ answer.status = 200

\* C17: after a delete of the date row of a date, resolution of that date
\* yields the weekday row of its weekday, or the default when there is none;
\* after a delete of a weekday row, resolution of every date of that weekday
\* that has no date row yields the default.
C17_DeleteFallsThrough ==
    [][DeleteDone(req', resp') =>
        \A date \in Dates :
            /\ (req'.weekday = None /\ req'.date = Some(date))
                   => getMaxCapacity(date)' = FallThrough(date)'
            /\ (/\ req'.weekday # None
                /\ parseInt(req'.weekday[1]) = Some(CalendarWeekday(date))
                /\ ~HasDateRow(date)')
                   => getMaxCapacity(date)' =
                          [maxMale |-> ConfiguredDefault,
                           maxFemale |-> ConfiguredDefault]]_vars

\* a weekday key that is an integer from 0 to 6
ValidWeekdayKey(w) == Len(w) = 1 /\ w[1] \in 0..6

\* a weekday query value that is the decimal numeral of an integer from 0 to 6
ValidWeekdayParam(str) ==
    Len(str) = 1 /\ str[1] \in {"0", "1", "2", "3", "4", "5", "6"}

\* C18: an authorized weekday upsert or delete whose key is not an integer
\* from 0 to 6 is answered 400 and writes nothing; every weekday row has a key
\* from 0 to 6.
C18_WeekdayKeyValidated ==
    [][/\ (/\ req'.op = "POST /api/admin/settings"
           /\ PresentsConfiguredToken(req'.authHeader)
           /\ req'.body # None
           /\ KeyedByWeekday(req')
           /\ (req'.body[1].weekday = None \/ ~ValidWeekdayKey(req'.body[1].weekday)))
          => (resp'.status = 400 /\ store' = store)
       /\ (/\ req'.op = "DELETE /api/admin/settings"
           /\ req'.handler = "AdminSettingsDelete"
           /\ PresentsConfiguredToken(req'.authHeader)
           /\ req'.weekday # None
           /\ ~ValidWeekdayParam(req'.weekday[1]))
          => (resp'.status = 400 /\ store' = store)
       /\ \A s \in weekday_settings' : s.weekday \in 0..6]_vars

----------------------------------------------------------------------------
(* Claims on the status of an application: Spec *)

\* the last request is an authorized status update of application id to status
\* st that the store carried out
StatusUpdateDone(r, answer, id, st) ==
    /\ r.op = "PATCH /api/admin/applications"
    /\ PresentsConfiguredToken(r.authHeader)
    /\ r.body # None
    /\ r.body[1].id = Some(id)
    /\ r.body[1].status = Some(st)
    /\ answer.status # 500

\* C19: an authorized status update of an existing application to one of the
\* four statuses is never refused, whatever status the application holds: it
\* is answered 200, the application holds the new status and nothing else of
\* the table changes.
C19_AnyTransition ==
    [][\A a \in applications : \A st \in Statuses :
          StatusUpdateDone(req', resp', a.id, st)
              => /\ resp'.status = 200
                 /\ applications' =
                        (applications \ {a}) \cup {[a EXCEPT !.status = st]}]_vars

\* a status update back to pending, the status an application starts with,
\* was carried out on application 1
C19_Witness ==
    /\ StatusUpdateDone(req, resp, 1, "pending")
    /\ resp.status = 200
    /\ \E a \in applications : a.id = 1 /\ a.status = "pending"
    /\ nextId > 1

\* C20: the status of every stored application is one of the four statuses; a
\* status update carrying another value is not applied.
C20_StatusInEnum ==
    [][/\ \A a \in applications' : a.status \in Statuses
       /\ (/\ req'.op = "PATCH /api/admin/applications"
           /\ req'.body # None
           /\ req'.body[1].status # None
           /\ req'.body[1].status[1] \notin Statuses)
          => applications' = applications]_vars

----------------------------------------------------------------------------
(* Reads of the store that fail: SpecFail *)

\* the tables the library reads
Tables == {"date_settings", "weekday_settings", "applications"}

\* const { data } = await supabaseAdmin.from(table)...: a read that fails
\* resolves with data null and an error the library does not look at
DataOrNull(table, data, failed) == IF table \in failed THEN None ELSE data

\* getMaxCapacity when the reads of the tables in failed fail
getMaxCapacityOnReads(date, failed) ==
    LET defaultMax == getDefaultMax
        dateSettings ==
            DataOrNull("date_settings", Single({s \in date_settings : s.date = date}),
                       failed)
    IN IF dateSettings # None
       THEN [maxMale   |-> Coalesce(dateSettings[1].max_male, defaultMax),
             maxFemale |-> Coalesce(dateSettings[1].max_female, defaultMax)]
       ELSE LET weekday == getWeekdayFromDate(date)
                weekdaySettings ==
                    DataOrNull("weekday_settings",
                               Single({s \in weekday_settings : s.weekday = weekday}),
                               failed)
            IN IF weekdaySettings # None
               THEN [maxMale   |-> Coalesce(weekdaySettings[1].max_male, defaultMax),
                     maxFemale |-> Coalesce(weekdaySettings[1].max_female, defaultMax)]
               ELSE [maxMale |-> defaultMax, maxFemale |-> defaultMax]

\* for (const app of applications ?? []): the rows the loop counts
RowsOrEmpty(date, failed) ==
    Coalesce(DataOrNull("applications", Some(ConfirmedOn(date)), failed), {})

checkDateAvailabilityOnReads(date, gender, failed) ==
    AvailabilityResult(date, gender, getMaxCapacityOnReads(date, failed),
                       RowsOrEmpty(date, failed))

getDateStatusOnReads(date, failed) ==
    LET m == getMaxCapacityOnReads(date, failed)
        c == CountGenders(RowsOrEmpty(date, failed),
                          [maleCount |-> 0, femaleCount |-> 0])
    IN [maleCount      |-> c.maleCount,
        femaleCount    |-> c.femaleCount,
        maxMale        |-> m.maxMale,
        maxFemale      |-> m.maxFemale,
        isMaleClosed   |-> IsClosed(c.maleCount, m.maxMale),
        isFemaleClosed |-> IsClosed(c.femaleCount, m.maxFemale)]

CallCheckDateAvailabilityOnReads(date, gender, failed) ==
    /\ resp' = [op |-> "checkDateAvailability", date |-> date, gender |-> gender,
                ret |-> checkDateAvailabilityOnReads(date, gender, failed)]
    /\ req' = [op |-> "checkDateAvailability", date |-> date, failed |-> failed]
    /\ UNCHANGED <<inflight, page, env, applications, date_settings, weekday_settings, nextId>>

CallGetDateStatusOnReads(date, failed) ==
    /\ resp' = [op |-> "getDateStatus", date |-> date,
                ret |-> getDateStatusOnReads(date, failed)]
    /\ req' = [op |-> "getDateStatus", date |-> date, failed |-> failed]
    /\ UNCHANGED <<inflight, page, env, applications, date_settings, weekday_settings, nextId>>

RecheckOnReads(desiredDate, gender, failed) ==
    IF desiredDate # None /\ gender \in {"male", "female"}
    THEN checkDateAvailabilityOnReads(desiredDate[1], gender, failed)
    ELSE [isAvailable |-> TRUE, message |-> None]

\* the handler with the availability re-check, when the reads of the tables in
\* failed fail
ApplyPostOnReads(body, insertError, failed) ==
    LET handler == "ApplyPost"
        gate    == ApplyGate(handler, body)
    IN
    /\ IF gate # None
       THEN /\ resp' = gate[1]
            /\ UNCHANGED <<applications, nextId>>
       ELSE LET data         == body[1]
                desiredDate  == NormalDesiredDate(data)
                availability == RecheckOnReads(desiredDate, data.gender, failed)
            IN IF ~availability.isAvailable
               THEN /\ resp' = ApplyReply(handler, "closed",
                           Some([gender |-> data.gender,
                                 desiredDate |-> desiredDate]),
                           400,
                           [ok |-> FALSE,
                            message |-> Coalesce(availability.message, <<"closed">>),
                            isClosed |-> TRUE])
                    /\ UNCHANGED <<applications, nextId>>
               ELSE InsertApplication(handler, data, desiredDate, insertError)
    /\ req' = [op |-> "POST /api/apply", handler |-> "ApplyPost", body |-> body,
                failed |-> failed]
    /\ UNCHANGED <<inflight, page, env, date_settings, weekday_settings>>

\* one confirmed man for D1, which fills the default of 1
SeatTaken ==
    {[id |-> 0, age |-> Some(29), gender |-> "male", desired_date |-> Some(D1),
      agree_privacy |-> TRUE, status |-> "confirmed"]}

\* the forms sent while reads fail: a man, a woman and another for D1, a man
\* without consent
FailBodies ==
    {Some(FormBody(g, Some(Text(0, Some(D1), 0)), JsTrue, None)) : g \in Genders}
    \cup {Some(FormBody("male", Some(Text(0, Some(D1), 0)), JsFalse, None))}

InitFail ==
    /\ env = [DEFAULT_MAX_PER_GENDER |-> Some(<<"1">>), ADMIN_TOKEN |-> Some("tok"),
              TZ |-> 540]
    /\ applications = SeatTaken
    /\ date_settings \in {{}, {[date |-> D1, max_male |-> Some(0), max_female |-> Some(0)]}}
    /\ weekday_settings \in
           {{}, {[weekday |-> 4, max_male |-> None, max_female |-> Some(0)]}}
    /\ nextId = 1
    /\ req = NoReq
    /\ inflight = {}
    /\ page = INITIAL_PAGE
    /\ resp = NoResp

NextFail ==
    \/ \E date \in Dates, gender \in Genders, failed \in SUBSET Tables :
           CallCheckDateAvailabilityOnReads(date, gender, failed)
    \/ \E date \in Dates, failed \in SUBSET Tables :
           CallGetDateStatusOnReads(date, failed)
    \/ \E body \in FailBodies, insertError \in BOOLEAN, failed \in SUBSET Tables :
           ApplyPostOnReads(body, insertError, failed)

SpecFail == InitFail /\ [][NextFail]_vars

\* a read that the call performs fails: the date row and the confirmed rows
\* are always read, the weekday row when no date row was found
PerformedReadFailed(date, failed) ==
    \/ "date_settings" \in failed
    \/ "applications" \in failed
    \/ ("weekday_settings" \in failed /\ ~HasDateRow(date))

\* what a caller should get in place of a result when a read failed
DataAccessFailure == [failure |-> "data access"]

\* C21: when a read of the resolver or of the counter fails,
\* checkDateAvailability and getDateStatus propagate a failure instead of a
\* result, and the apply handler that re-checks availability inserts nothing.
C21_ReadFailurePropagates ==
    [][/\ (/\ req'.op \in {"checkDateAvailability", "getDateStatus"}
           /\ PerformedReadFailed(req'.date, req'.failed))
          => resp'.ret = DataAccessFailure
       /\ (/\ req'.op = "POST /api/apply"
           /\ req'.body[1].gender \in {"male", "female"}
           /\ resp'.at \in {"closed", "inserted", "insert error"}
           /\ PerformedReadFailed(D1, req'.failed))
          => applications' = applications]_vars

----------------------------------------------------------------------------
(* Claims on the evaluator as a query: Spec *)

StatusFields(r) ==
    [maleCount      |-> r.maleCount,
     femaleCount    |-> r.femaleCount,
     maxMale        |-> r.maxMale,
     maxFemale      |-> r.maxFemale,
     isMaleClosed   |-> r.isMaleClosed,
     isFemaleClosed |-> r.isFemaleClosed]

\* C23: for every date, getDateStatus returns the counts, maxima and closed
\* flags that checkDateAvailability returns for that date and any gender.
C23_StatusMatchesCheck ==
    \A date \in Dates, gender \in Genders :
        getDateStatus(date) = StatusFields(checkDateAvailability(date, gender))

\* getDateStatus has answered for a date with applications of several
\* statuses, one gender closed and the other open
C23_Witness ==
    /\ resp.op = "getDateStatus"
    /\ resp.ret = StatusFields(checkDateAvailability(resp.date, "female"))
    /\ resp.ret.isMaleClosed
    /\ ~resp.ret.isFemaleClosed
    /\ resp.ret.maleCount > 0
    /\ \E a \in applications :
           a.desired_date = Some(resp.date) /\ a.status # "confirmed"

----------------------------------------------------------------------------
(* The apply handler step by step, beside the admin: SpecRace *)

\* applications the store may number under SpecRace
MaxRaceApps == 2

\* the browsers that submit
Clients == {1, 2}

\* the first half of POST /api/apply: validation, honeypot, consent and the
\* availability re-check; a request that passes them is suspended at the
\* await of its insert
ApplyPostCheck(k, body) ==
    LET handler == "ApplyPost"
        gate    == ApplyGate(handler, body)
    IN
    /\ \A f \in inflight : f.client # k
    /\ IF gate # None
       THEN /\ resp' = gate[1]
            /\ UNCHANGED inflight
       ELSE LET data         == body[1]
                desiredDate  == NormalDesiredDate(data)
                availability == Recheck(desiredDate, data.gender)
            IN IF ~availability.isAvailable
               THEN /\ resp' = ApplyReply(handler, "closed",
                           Some([gender |-> data.gender,
                                 desiredDate |-> desiredDate]),
                           400,
                           [ok |-> FALSE,
                            message |-> Coalesce(availability.message, <<"closed">>),
                            isClosed |-> TRUE])
                    /\ UNCHANGED inflight
               ELSE /\ inflight' = inflight \cup
                           {[client |-> k, data |-> data, desiredDate |-> desiredDate]}
                    /\ resp' = NoResp
    /\ req' = [op |-> "POST /api/apply", handler |-> handler, body |-> body,
                client |-> k]
    /\ UNCHANGED <<page, env, applications, date_settings, weekday_settings, nextId>>

\* a second half that takes the check again in one step with the insert
ApplyPostInsertRechecked(k, insertError) ==
    \E f \in inflight :
        /\ f.client = k
        /\ IF Recheck(f.desiredDate, f.data.gender).isAvailable
           THEN InsertApplicationUpTo(MaxRaceApps, "ApplyPost", f.data, f.desiredDate,
                                      insertError)
           ELSE /\ resp' = ApplyReply("ApplyPost", "closed", None, 400,
                                      [ok |-> FALSE, isClosed |-> TRUE])
                /\ UNCHANGED <<applications, nextId>>
        /\ inflight' = inflight \ {f}
        /\ req' = [op |-> "POST /api/apply", handler |-> "ApplyPost",
                    body |-> Some(f.data), client |-> k]
        /\ UNCHANGED <<page, env, date_settings, weekday_settings>>

\* the second half: the insert and the reply
ApplyPostInsert(k, insertError) ==
    \E f \in inflight :
        /\ f.client = k
        /\ InsertApplicationUpTo(MaxRaceApps, "ApplyPost", f.data, f.desiredDate,
                                 insertError)
        /\ inflight' = inflight \ {f}
        /\ req' = [op |-> "POST /api/apply", handler |-> "ApplyPost",
                    body |-> Some(f.data), client |-> k]
        /\ UNCHANGED <<page, env, date_settings, weekday_settings>>

\* the submissions of SpecRace: a man and a woman for D1
RaceBodies ==
    {Some(FormBody(g, Some(Text(0, Some(D1), 0)), JsTrue, None)) :
        g \in {"male", "female"}}

\* the status updates of SpecRace
RacePatchBodies ==
    {Some([id |-> Some(i), status |-> Some(st), note |-> None]) :
        i \in 1..MaxRaceApps, st \in {"confirmed", "matched"}}
    \cup {Some([id |-> Some(1), status |-> Some(st), note |-> None]) :
            st \in {"pending", "rejected"}}

InitRace ==
    /\ env = [DEFAULT_MAX_PER_GENDER |-> Some(<<"1">>), ADMIN_TOKEN |-> Some("tok"),
              TZ |-> 540]
    /\ applications = {}
    /\ date_settings = {}
    /\ weekday_settings = {}
    /\ nextId = 1
    /\ req = NoReq
    /\ resp = NoResp
    /\ inflight = {}
    /\ page = INITIAL_PAGE

NextRace ==
    \/ \E k \in Clients, body \in RaceBodies : ApplyPostCheck(k, body)
    \/ \E k \in Clients, insertError \in BOOLEAN : ApplyPostInsert(k, insertError)
    \/ \E body \in RacePatchBodies : AdminApplicationsPatch(Bearer("tok"), body, FALSE)
    \/ \E i \in 1..MaxRaceApps : AdminApplicationsDelete(Bearer("tok"), Some(i), FALSE)

SpecRace == InitRace /\ [][NextRace]_vars

\* the last step is the second half of client k's submission
InsertStep(k) ==
    /\ \E f \in inflight : f.client = k
    /\ \A f \in inflight' : f.client # k

\* C24: the check and the insert of a submission are two steps with no lock
\* between them: a submission that passed its check is inserted as pending
\* whatever was inserted or confirmed since, so two submissions for the last
\* seat of a gender and date are both inserted.
C24_CheckThenInsertNotAtomic ==
    [][\A f \in inflight :
          (InsertStep(f.client) /\ resp'.status # 500)
              => /\ resp'.at = "inserted"
                 /\ \E row \in applications' :
                        /\ row.status = "pending"
                        /\ row.gender = f.data.gender
                        /\ row.desired_date = f.desiredDate
                        /\ applications' = applications \cup {row}
                        /\ row \notin applications]_vars

\* a submission inserted for a date whose one seat its gender had already
\* lost to a submission that passed the check at the same time
C24_Witness ==
    /\ req.op = "POST /api/apply"
    /\ resp.op = "POST /api/apply"
    /\ resp.at = "inserted"
    /\ getMaxCapacity(D1).maxMale = 1
    /\ ConfirmedCount(D1, "male") = 1
    /\ ~checkDateAvailability(D1, "male").isAvailable
    /\ \E a \in applications :
           /\ a.id = nextId - 1
           /\ a.gender = "male"
           /\ a.desired_date = Some(D1)
           /\ a.status = "pending"

\* C26: an authorized status update to confirmed is applied without a look at
\* capacity: when the confirmed count of the applicant's gender for the desired
\* date is already at or over the resolved maximum, the update is answered 200,
\* the count goes up by one and the date reports that gender closed.
C26_ConfirmIgnoresCapacity ==
    [][\A a \in applications : \A date \in Dates :
          (/\ StatusUpdateDone(req', resp', a.id, "confirmed")
           /\ a.status # "confirmed"
           /\ a.desired_date = Some(date)
           /\ a.gender \in {"male", "female"}
           /\ ~checkDateAvailability(date, a.gender).isAvailable)
              => /\ resp'.status = 200
                 /\ ConfirmedCount(date, a.gender)' = ConfirmedCount(date, a.gender) + 1
                 /\ ~checkDateAvailability(date, a.gender)'.isAvailable]_vars

\* two confirmed men for a date whose maximum for men is 1, after a status
\* update that was answered 200
C26_Witness ==
    /\ req.op = "PATCH /api/admin/applications"
    /\ req.body[1].status = Some("confirmed")
    /\ resp.status = 200
    /\ getMaxCapacity(D1).maxMale = 1
    /\ ConfirmedCount(D1, "male") = 2
    /\ getDateStatus(D1).isMaleClosed

\* the last request took application a out of the confirmed ones: an
\* authorized update to another status, or an authorized delete
Unconfirmed(r, answer, a) ==
    \/ \E st \in Statuses \ {"confirmed"} : StatusUpdateDone(r, answer, a.id, st)
    \/ /\ r.op = "DELETE /api/admin/applications"
       /\ PresentsConfiguredToken(r.authHeader)
       /\ r.id = Some(a.id)
       /\ answer.status = 200

\* C27: only confirmed applications occupy a seat: when a confirmed
\* application is moved to matched, rejected or pending, or deleted, the
\* confirmed count of its gender and date goes down by one, and a gender that
\* was closed exactly at its maximum is open again.
C27_UnconfirmReopens ==
    [][\A a \in applications : \A date \in Dates :
          (/\ Unconfirmed(req', resp', a)
           /\ a.status = "confirmed"
           /\ a.desired_date = Some(date)
           /\ a.gender \in {"male", "female"})
              => /\ ConfirmedCount(date, a.gender)' = ConfirmedCount(date, a.gender) - 1
                 /\ ConfirmedCount(date, a.gender) = ResolvedMax(date, a.gender)
                        => checkDateAvailability(date, a.gender)'.isAvailable]_vars

\* a man's submission for D1 has passed the availability check while the
\* application that held the one seat is matched
C27_Witness ==
    /\ getMaxCapacity(D1).maxMale = 1
    /\ ConfirmedCount(D1, "male") = 0
    /\ \E a \in applications :
           a.status = "matched" /\ a.gender = "male" /\ a.desired_date = Some(D1)
    /\ \E f \in inflight : f.data.gender = "male" /\ f.desiredDate = Some(D1)
    /\ req.op = "POST /api/apply"
    /\ resp = NoResp

----------------------------------------------------------------------------
(* GET /api/availability?month= beside ?date=: SpecMonth *)

\* the order of two "YYYY-MM-DD" strings, which is the order of their days
DayNumber(date) == DaysFromCivil(date[1], date[2], date[3])

\* new Date(y, m, 1).toISOString().slice(0, 10): local midnight of the first
\* day of the following month, as a date in UTC
MonthEndDay(month) ==
    LET y == IF month[2] = 12 THEN month[1] + 1 ELSE month[1]
        m == IF month[2] = 12 THEN 1 ELSE month[2] + 1
    IN (DaysFromCivil(y, m, 1) * 1440 - env.TZ) \div 1440

\* .gte(column, start).lt(column, end)
InMonth(date, month) ==
    /\ DayNumber(date) >= DaysFromCivil(month[1], month[2], 1)
    /\ DayNumber(date) < MonthEndDay(month)

RECURSIVE SortByDate(_)
\* byDate.sort((a, b) => a.date.localeCompare(b.date))
SortByDate(entries) ==
    IF entries = {} THEN <<>>
    ELSE LET first == CHOOSE e \in entries :
                          \A o \in entries : DayNumber(e.date) <= DayNumber(o.date)
         IN <<first>> \o SortByDate(entries \ {first})

\* the month branch of GET: confirmed applications and date rows of the
\* month, one entry for each date that has either
AvailabilityGetMonth(month) ==
    LET op == "GET /api/availability?month"
        defaultMax == getDefaultMax
        monthApplications ==
            {a \in applications :
                /\ a.status = "confirmed"
                /\ a.desired_date # None
                /\ InMonth(a.desired_date[1], month)}
        settings == {s \in date_settings : InMonth(s.date, month)}
        allDates == {a.desired_date[1] : a \in monthApplications}
                        \cup {s.date : s \in settings}
        counts(d) ==
            CountGenders({a \in monthApplications : a.desired_date = Some(d)},
                         [maleCount |-> 0, femaleCount |-> 0])
        setting(d) ==
            IF \E s \in settings : s.date = d
            THEN LET s == CHOOSE t \in settings : t.date = d
                 IN [maxMale   |-> Coalesce(s.max_male, defaultMax),
                     maxFemale |-> Coalesce(s.max_female, defaultMax)]
            ELSE [maxMale |-> defaultMax, maxFemale |-> defaultMax]
        entry(d) ==
            [date           |-> d,
             maleCount      |-> counts(d).maleCount,
             femaleCount    |-> counts(d).femaleCount,
             maxMale        |-> setting(d).maxMale,
             maxFemale      |-> setting(d).maxFemale,
             isMaleClosed   |-> counts(d).maleCount >= setting(d).maxMale,
             isFemaleClosed |-> counts(d).femaleCount >= setting(d).maxFemale]
    IN
    /\ resp' = Json(op, 200,
                    [ok |-> TRUE, byDate |-> SortByDate({entry(d) : d \in allDates}),
                     defaultMaxPerGender |-> defaultMax])
    /\ req' = [op |-> op, month |-> month]
    /\ UNCHANGED <<inflight, page, env, applications, date_settings, weekday_settings,
                   nextId>>

Months == {<<2026, 1>>, <<2025, 12>>}

\* applications tables of SpecMonth: none, a confirmed man for D1, and beside
\* him a pending woman for D1 and a confirmed woman for D2
MonthTables ==
    {{},
     {[id |-> 1, age |-> Some(29), gender |-> "male", desired_date |-> Some(D1),
       agree_privacy |-> TRUE, status |-> "confirmed"]},
     {[id |-> 1, age |-> Some(29), gender |-> "male", desired_date |-> Some(D1),
       agree_privacy |-> TRUE, status |-> "confirmed"],
      [id |-> 2, age |-> Some(29), gender |-> "female", desired_date |-> Some(D1),
       agree_privacy |-> TRUE, status |-> "pending"],
      [id |-> 3, age |-> Some(29), gender |-> "female", desired_date |-> Some(D2),
       agree_privacy |-> TRUE, status |-> "confirmed"]}}

InitMonth ==
    /\ env \in [DEFAULT_MAX_PER_GENDER : {None, Some(<<"1">>)},
                ADMIN_TOKEN : {Some("tok")},
                TZ : {0 - 300, 540}]
    /\ applications \in MonthTables
    /\ date_settings \in
           {{}, {[date |-> D1, max_male |-> Some(2), max_female |-> None]}}
    /\ weekday_settings \in
           {{}, {[weekday |-> 4, max_male |-> Some(3), max_female |-> None]}}
    /\ nextId = Cardinality(applications) + 1
    /\ req = NoReq
    /\ resp = NoResp
    /\ inflight = {}
    /\ page = INITIAL_PAGE

NextMonth ==
    \/ \E month \in Months : AvailabilityGetMonth(month)
    \/ \E date \in Dates : AvailabilityGet(date)

SpecMonth == InitMonth /\ [][NextMonth]_vars

\* the entries of the last monthly response
ByDate == {resp.body.byDate[i] : i \in 1..Len(resp.body.byDate)}

\* C25: every entry of the monthly response carries the counts, maxima and
\* closed flags that getDateStatus returns for its date on the same store.
C25_MonthMatchesDate ==
    resp.op = "GET /api/availability?month" =>
        \A e \in ByDate :
            StatusFields(e) = getDateStatus(e.date)

----------------------------------------------------------------------------
(* Status updates on rows with all their columns: SpecPatch *)

\* a row of applications with the columns of the insert and those the store
\* and the admin fill: created_at, admin_note
FullRow(id, gender, status, admin_note, created_at) ==
    [id |-> id, name |-> 3, age |-> Some(29), gender |-> gender, phone |-> 13,
     kakao_id |-> None, location |-> None, preferred_gender |-> None,
     note |-> None, desired_date |-> Some(D1), agree_privacy |-> TRUE,
     status |-> status, admin_note |-> admin_note, created_at |-> created_at]

\* note in the body of PATCH: omitted, a text, null
NoteInputs == {None, Some(Some("called")), Some(None)}

PatchNoteBodies ==
    {Some([id |-> Some(i), status |-> Some(st), note |-> n]) :
        i \in 1..3, st \in Statuses, n \in NoteInputs}

InitPatch ==
    /\ env = [DEFAULT_MAX_PER_GENDER |-> Some(<<"1">>), ADMIN_TOKEN |-> Some("tok"),
              TZ |-> 540]
    /\ applications = {FullRow(1, "male", "pending", None, 100),
                       FullRow(2, "female", "confirmed", Some("old"), 101)}
    /\ date_settings = {}
    /\ weekday_settings = {}
    /\ nextId = 3
    /\ req = NoReq
    /\ resp = NoResp
    /\ inflight = {}
    /\ page = INITIAL_PAGE

NextPatch ==
    \E body \in PatchNoteBodies, updateError \in BOOLEAN :
        AdminApplicationsPatch(Bearer("tok"), body, updateError)

SpecPatch == InitPatch /\ [][NextPatch]_vars

\* C28: an authorized status update changes, of the application with the given
\* id, the status and (when a note is sent) the admin_note, and nothing else:
\* every other column of that row, its admin_note when no note is sent, and
\* every other row are as before; an id that no row has changes nothing.
C28_UpdateFrame ==
    [][(req'.op = "PATCH /api/admin/applications" /\ resp'.status = 200) =>
        LET b == req'.body[1] IN
        /\ {a \in applications' : a.id # b.id[1]} =
               {a \in applications : a.id # b.id[1]}
        /\ {a.id : a \in applications'} = {a.id : a \in applications}
        /\ Cardinality(applications') = Cardinality(applications)
        /\ \A old \in applications : \A new \in applications' :
               (old.id = b.id[1] /\ new.id = b.id[1]) =>
                   /\ DOMAIN new = DOMAIN old
                   /\ \A f \in DOMAIN old \ {"status", "admin_note"} : new[f] = old[f]
                   /\ new.status = b.status[1]
                   /\ new.admin_note = IF b.note = None THEN old.admin_note
                                       ELSE b.note[1]]_vars

\* application 2 after an update without a note: matched, its old note kept,
\* beside application 1 with a note written by an earlier update
C28_Witness ==
    /\ req.op = "PATCH /api/admin/applications"
    /\ req.body[1].id = Some(2)
    /\ req.body[1].note = None
    /\ resp.status = 200
    /\ FullRow(2, "female", "matched", Some("old"), 101) \in applications
    /\ FullRow(1, "male", "rejected", Some("called"), 100) \in applications

----------------------------------------------------------------------------
(* The apply page and its availability requests: SpecPage *)

\* isDateClosedForGender: the closed flag of dateAvailability for form.gender
isDateClosedForGender ==
    IF page.dateAvailability = None \/ page.desiredDate = None THEN FALSE
    ELSE IF page.gender = "male" THEN page.dateAvailability[1].isMaleClosed
    ELSE IF page.gender = "female" THEN page.dateAvailability[1].isFemaleClosed
    ELSE FALSE

\* handleDateChange(date): setForm, then checkDateAvailability(date) up to its
\* await of fetch; None is the date input cleared to ""
PageHandleDateChange(date) ==
    /\ page' = IF date = None
               THEN [page EXCEPT !.desiredDate = None, !.dateAvailability = None]
               ELSE [page EXCEPT !.desiredDate = date,
                                 !.isCheckingDate = TRUE,
                                 !.fetches = @ \cup {[date |-> date[1], res |-> None]}]
    /\ UNCHANGED <<inflight, env, applications, date_settings, weekday_settings,
                   nextId, req, resp>>

\* updateField("gender", value)
PageSelectGender(gender) ==
    /\ page' = [page EXCEPT !.gender = gender]
    /\ UNCHANGED <<inflight, env, applications, date_settings, weekday_settings,
                   nextId, req, resp>>

\* the server answers a pending fetch of /api/availability?date=
PageFetchAnswered(f) ==
    /\ f \in page.fetches
    /\ f.res = None
    /\ resp' = AvailabilityGetReply(f.date)
    /\ req' = [op |-> "GET /api/availability", date |-> f.date]
    /\ page' = [page EXCEPT !.fetches = (@ \ {f}) \cup {[f EXCEPT !.res = Some(resp')]}]
    /\ UNCHANGED <<inflight, env, applications, date_settings, weekday_settings,
                   nextId>>

\* checkDateAvailability after its await: res.ok, setDateAvailability with the
\* date of the call, finally setIsCheckingDate(false)
PageFetchSettled(f) ==
    /\ f \in page.fetches
    /\ f.res # None
    /\ LET json == f.res[1].body IN
       page' = [page EXCEPT
                   !.dateAvailability =
                       Some([date |-> f.date,
                             male |-> json.male, female |-> json.female,
                             maxMale |-> json.maxMale, maxFemale |-> json.maxFemale,
                             isMaleClosed |-> json.isMaleClosed,
                             isFemaleClosed |-> json.isFemaleClosed]),
                   !.isCheckingDate = FALSE,
                   !.fetches = @ \ {f}]
    /\ UNCHANGED <<inflight, env, applications, date_settings, weekday_settings,
                   nextId, req, resp>>

\* checkDateAvailability when fetch rejects: catch, finally
PageFetchFailed(f) ==
    /\ f \in page.fetches
    /\ page' = [page EXCEPT !.isCheckingDate = FALSE, !.fetches = @ \ {f}]
    /\ UNCHANGED <<inflight, env, applications, date_settings, weekday_settings,
                   nextId, req, resp>>

\* D1 is closed by its date row, D2 is open
InitPage ==
    /\ env = [DEFAULT_MAX_PER_GENDER |-> Some(<<"1">>), ADMIN_TOKEN |-> Some("tok"),
              TZ |-> 540]
    /\ applications = {}
    /\ date_settings = {[date |-> D1, max_male |-> Some(0), max_female |-> Some(0)]}
    /\ weekday_settings = {}
    /\ nextId = 1
    /\ req = NoReq
    /\ resp = NoResp
    /\ inflight = {}
    /\ page = INITIAL_PAGE

NextPage ==
    \/ \E date \in {None} \cup {Some(d) : d \in Dates} : PageHandleDateChange(date)
    \/ \E gender \in Genders : PageSelectGender(gender)
    \/ \E f \in page.fetches : PageFetchAnswered(f)
    \/ \E f \in page.fetches : PageFetchSettled(f)
    \/ \E f \in page.fetches : PageFetchFailed(f)

SpecPage == InitPage /\ [][NextPage]_vars

\* C29: the availability the page holds while a date is selected is that of
\* the selected date, and submission is disabled for a closed date only when
\* the selected date is closed for the selected gender.
C29_AvailabilityOfSelectedDate ==
    /\ (page.dateAvailability # None /\ page.desiredDate # None)
           => page.dateAvailability[1].date = page.desiredDate[1]
    /\ isDateClosedForGender
           => ~checkDateAvailability(page.desiredDate[1], page.gender).isAvailable

----------------------------------------------------------------------------
(* Claims on the order of the intake checks: SpecApply *)

\* the reply is the rejection of a closed date
ClosedReply(r) == r.status = 400 /\ "isClosed" \in DOMAIN r.body

\* C30: the intake checks run in the order validation, honeypot, consent,
\* availability: an invalid body gets the generic 400 whatever its honeypot
\* holds; a valid body with a filled honeypot gets {ok: true} and stores
\* nothing whatever its consent and date; a valid body without consent and
\* with no filled honeypot gets the consent message whatever its date; a date
\* is refused as closed only to a body that passed the three checks before.
C30_CheckOrder ==
    [][(req'.op = "POST /api/apply" /\ req'.body # None) =>
        LET form == req'.body[1] IN
        /\ ~SchemaSuccess(form)
              => /\ resp'.status = 400
                 /\ resp'.body = [ok |-> FALSE, message |-> <<"check your input">>]
        /\ (SchemaSuccess(form) /\ WebsiteFilled(form))
              => (AnsweredOk(resp') /\ applications' = applications)
        /\ (SchemaSuccess(form) /\ ~WebsiteFilled(form) /\ form.agreePrivacy = JsFalse)
              => /\ resp'.status = 400
                 /\ resp'.body = [ok |-> FALSE, message |-> <<"consent required">>]
        /\ ClosedReply(resp')
              => /\ SchemaSuccess(form)
                 /\ ~WebsiteFilled(form)
                 /\ form.agreePrivacy # JsFalse]_vars

\* a valid body with a filled honeypot, no consent and a closed date,
\* answered {ok: true} by the handler that re-checks availability
C30_Witness ==
    /\ req.op = "POST /api/apply"
    /\ req.handler = "ApplyPost"
    /\ req.body # None
    /\ SchemaSuccess(req.body[1])
    /\ WebsiteFilled(req.body[1])
    /\ req.body[1].agreePrivacy = JsFalse
    /\ req.body[1].gender = "male"
    /\ NormalDesiredDate(req.body[1]) = Some(D1)
    /\ ~checkDateAvailability(D1, "male").isAvailable
    /\ AnsweredOk(resp)
    /\ applications = {}

====
